---- MODULE Spec2Model ----
(***************************************************************************)
(* Big-integer arithmetic and slow-path rounding of lexical-parse-float    *)
(* (bigint.rs, slow.rs), modelled on limbs of LIMB_BITS bits.              *)
(*                                                                         *)
(* A StackVec is a sequence of limbs, least significant first, of at most  *)
(* SIZE limbs.  The model is the 64-bit-limb target (Limb = u64,           *)
(* Wide = u128) with every width divided by 16: a limb has LIMB_BITS = 4   *)
(* bits, so a u64 register is one limb wide and a Wide two limbs wide.     *)
(* Every operation is translated statement by statement; an operation that *)
(* can panic or fail returns a record with a status field st:              *)
(*     "ok"     returned normally                                          *)
(*     "none"   returned None to its caller                                *)
(*     "panic"  unwrap()/assert!/overflow panic                            *)
(*     "hang"   a loop that no longer makes progress                       *)
(* Each call is one step of the state machine: Init draws a call (function *)
(* name and arguments) from a bounded set, the action of that function     *)
(* runs it and stores what it returned.                                    *)
(***************************************************************************)
EXTENDS Integers, Sequences, FiniteSets, TLC

VARIABLES pc, call, ret

vars == <<pc, call, ret>>

(***************************************************************************)
(* Widths and capacities (bigint.rs 1558-1574, 16-29).                     *)
(***************************************************************************)
\* Bits of a limb: 64 in the source, divided by 16.
LIMB_BITS == 4

\* Capacity of the StackVec under test (BIGINT_LIMBS, scaled).
SIZE == 6

RECURSIVE Pow(_, _)
Pow(b, e) == IF e = 0 THEN 1 ELSE b * Pow(b, e - 1)

LimbBase == Pow(2, LIMB_BITS)

\* Limb::max_value()
LIMB_MAX == LimbBase - 1

\* Wide is twice as wide as Limb.
WideBase == LimbBase * LimbBase

Min(a, b) == IF a < b THEN a ELSE b

Max(a, b) == IF a > b THEN a ELSE b

(***************************************************************************)
(* Results.                                                                *)
(***************************************************************************)
Ok(v) == [st |-> "ok", v |-> v]

Panic(v) == [st |-> "panic", v |-> v]

Hang(v) == [st |-> "hang", v |-> v]

(***************************************************************************)
(* StackVec (bigint.rs 270-582).                                           *)
(***************************************************************************)
\* The integer a little-endian limb sequence denotes.
RECURSIVE Value(_)
Value(v) == IF v = <<>> THEN 0 ELSE Head(v) + LimbBase * Value(Tail(v))

Zeros(n) == [i \in 1..n |-> 0]

\* push_unchecked without the capacity test of try_push: a fault that the
\* bound on the length must expose.
try_push_unchecked(v, value) == [ok |-> TRUE, v |-> Append(v, value)]

\* try_push: Some(()) and the value appended, or None and nothing changed.
try_push(v, value) ==
    IF Len(v) < SIZE
    THEN [ok |-> TRUE, v |-> Append(v, value)]
    ELSE [ok |-> FALSE, v |-> v]

\* try_extend: copy a slice to the end.
try_extend(v, slc) ==
    IF Len(v) + Len(slc) <= SIZE
    THEN [ok |-> TRUE, v |-> v \o slc]
    ELSE [ok |-> FALSE, v |-> v]

\* try_from: a vector from a slice.
try_from(slc) == try_extend(<<>>, slc)

\* try_resize: grow with the fill value or truncate.
try_resize(v, len, value) ==
    IF len > SIZE
    THEN [ok |-> FALSE, v |-> v]
    ELSE [ok |-> TRUE,
          v |-> IF len > Len(v)
                THEN v \o [i \in 1..(len - Len(v)) |-> value]
                ELSE SubSeq(v, 1, len)]

\* pop: Some(top limb) and the vector without it, or None when it is empty.
pop(v) ==
    IF v = <<>>
    THEN [ok |-> FALSE, v |-> v, out |-> 0]
    ELSE [ok |-> TRUE, v |-> SubSeq(v, 1, Len(v) - 1), out |-> v[Len(v)]]

\* normalize: strip the zero limbs at the top.
RECURSIVE normalize(_)
normalize(v) ==
    IF v # <<>> /\ v[Len(v)] = 0
    THEN normalize(SubSeq(v, 1, Len(v) - 1))
    ELSE v

is_normalized(v) == v = <<>> \/ v[Len(v)] # 0

(***************************************************************************)
(* Scalar arithmetic (bigint.rs 899-932).                                  *)
(***************************************************************************)
\* overflowing_add: (sum, carry)
scalar_add(a, b) == [lo |-> (a + b) % LimbBase, c |-> (a + b) >= LimbBase]

\* overflowing_sub: (difference, borrow)
scalar_sub(a, b) == [lo |-> (a - b) % LimbBase, c |-> a < b]

\* (low, high) of a * b + carry, computed in Wide.
scalar_mul(a, b, carry) ==
    LET z == a * b + carry
    IN  [lo |-> z % LimbBase, hi |-> z \div LimbBase]

\* (quotient, remainder) of ((rem << LIMB_BITS) | x) / y, quotient cast to Limb.
scalar_div(a, b, rem) ==
    LET w == a + rem * LimbBase
    IN  [q |-> (w \div b) % LimbBase, r |-> w % b]

BoolToLimb(b) == IF b THEN 1 ELSE 0

(***************************************************************************)
(* Small arithmetic: bigint (op) limb (bigint.rs 937-1012).                *)
(***************************************************************************)
\* The while loop of small_add_from: returns the vector and the carry left.
RECURSIVE small_add_loop(_, _, _)
small_add_loop(v, carry, index) ==
    IF carry # 0 /\ index < Len(v)
    THEN LET result == scalar_add(v[index + 1], carry)
         IN  small_add_loop([v EXCEPT ![index + 1] = result.lo],
                            BoolToLimb(result.c), index + 1)
    ELSE [v |-> v, carry |-> carry]

\* small_add_from: the result of try_push is dropped (line 951).
small_add_from(v, y, start) ==
    LET l == small_add_loop(v, y, start)
    IN  IF l.carry # 0 THEN try_push(l.v, l.carry).v ELSE l.v

small_add(v, y) == small_add_from(v, y, 0)

\* The while loop of small_sub_from.
RECURSIVE small_sub_loop(_, _, _)
small_sub_loop(v, carry, index) ==
    IF carry # 0 /\ index < Len(v)
    THEN LET result == scalar_sub(v[index + 1], carry)
         IN  small_sub_loop([v EXCEPT ![index + 1] = result.lo],
                            BoolToLimb(result.c), index + 1)
    ELSE [v |-> v, carry |-> carry]

\* small_sub_from: borrow upward from start, then normalize.
small_sub_from(v, y, start) == normalize(small_sub_loop(v, y, start).v)

small_sub(v, y) == small_sub_from(v, y, 0)

\* The for loop of small_mul, from the low limb up.
RECURSIVE small_mul_loop(_, _, _, _)
small_mul_loop(v, y, carry, index) ==
    IF index < Len(v)
    THEN LET result == scalar_mul(v[index + 1], y, carry)
         IN  small_mul_loop([v EXCEPT ![index + 1] = result.lo], y,
                            result.hi, index + 1)
    ELSE [v |-> v, carry |-> carry]

\* small_mul: the result of try_push is dropped (line 994); no normalize.
small_mul(v, y) ==
    LET l == small_mul_loop(v, y, 0, 0)
    IN  IF l.carry # 0 THEN try_push(l.v, l.carry).v ELSE l.v

\* The for loop of small_div: x.iter_mut() runs from the low limb up.
RECURSIVE small_div_loop(_, _, _, _)
small_div_loop(v, y, rem, index) ==
    IF index < Len(v)
    THEN LET result == scalar_div(v[index + 1], y, rem)
         IN  small_div_loop([v EXCEPT ![index + 1] = result.q], y,
                            result.r, index + 1)
    ELSE [v |-> v, rem |-> rem]

\* small_div: quotient in place (normalized), remainder returned;
\* a zero divisor panics in scalar_div.
small_div(v, y) ==
    IF y = 0 /\ v # <<>>
    THEN [st |-> "panic", v |-> v, rem |-> 0]
    ELSE LET l == small_div_loop(v, y, 0, 0)
         IN  [st |-> "ok", v |-> normalize(l.v), rem |-> l.rem]

(***************************************************************************)
(* Large arithmetic: bigint (op) bigint (bigint.rs 1017-1105).             *)
(***************************************************************************)
\* The for loop of large_add_from over the limbs of y.
RECURSIVE large_add_loop(_, _, _, _, _)
large_add_loop(v, y, start, carry, index) ==
    IF index < Len(y)
    THEN LET r1 == scalar_add(v[start + index + 1], y[index + 1])
             r2 == scalar_add(r1.lo, 1)
             xi == IF carry THEN r2.lo ELSE r1.lo
             tmp == IF carry THEN r1.c \/ r2.c ELSE r1.c
         IN  large_add_loop([v EXCEPT ![start + index + 1] = xi], y, start,
                            tmp, index + 1)
    ELSE [v |-> v, carry |-> carry]

\* large_add_from: try_resize(..).unwrap() panics when the buffer cannot grow;
\* the final carry goes through small_add_from.
large_add_from(v, y, start) ==
    LET grow == Len(y) > Max(Len(v) - start, 0)
        r == IF grow THEN try_resize(v, Len(y) + start, 0)
                     ELSE [ok |-> TRUE, v |-> v]
    IN  IF ~r.ok
        THEN Panic(v)
        ELSE LET l == large_add_loop(r.v, y, start, FALSE, 0)
             IN  Ok(IF l.carry
                    THEN small_add_from(l.v, 1, Len(y) + start)
                    ELSE l.v)

large_add(v, y) == large_add_from(v, y, 0)

\* The for loop of large_sub over the limbs of y.
RECURSIVE large_sub_loop(_, _, _, _)
large_sub_loop(v, y, carry, index) ==
    IF index < Len(y)
    THEN LET r1 == scalar_sub(v[index + 1], y[index + 1])
             r2 == scalar_sub(r1.lo, 1)
             xi == IF carry THEN r2.lo ELSE r1.lo
             tmp == IF carry THEN r1.c \/ r2.c ELSE r1.c
         IN  large_sub_loop([v EXCEPT ![index + 1] = xi], y, tmp, index + 1)
    ELSE [v |-> v, carry |-> carry]

\* large_sub with the borrow between limbs lost: a fault that an exact
\* difference must expose.
large_sub_borrow_lost(v, y) ==
    IF Len(v) < Len(y)
    THEN <<>>
    ELSE normalize(large_sub_loop(v, y, FALSE, 0).v)

large_sub(v, y) ==
    IF Len(v) < Len(y)
    THEN <<>>
    ELSE LET l == large_sub_loop(v, y, FALSE, 0)
         IN  IF l.carry /\ Len(v) > Len(y)
             THEN small_sub_from(l.v, 1, Len(y))
             ELSE IF l.carry THEN <<>> ELSE normalize(l.v)

(***************************************************************************)
(* Comparison (bigint.rs 1331-1348): lengths first, then from the top.     *)
(***************************************************************************)
RECURSIVE compare_from(_, _, _)
compare_from(a, b, i) ==
    IF i = 0 THEN "Equal"
    ELSE IF a[i] < b[i] THEN "Less"
    ELSE IF a[i] > b[i] THEN "Greater"
    ELSE compare_from(a, b, i - 1)

compare(a, b) ==
    IF Len(a) < Len(b) THEN "Less"
    ELSE IF Len(a) > Len(b) THEN "Greater"
    ELSE compare_from(a, b, Len(a))

(***************************************************************************)
(* Leading zeros and bit length (bigint.rs 1421-1438).                     *)
(***************************************************************************)
\* Number of bits of a value (0 for 0).
RECURSIVE Bits(_)
Bits(n) == IF n = 0 THEN 0 ELSE 1 + Bits(n \div 2)

\* Limb::leading_zeros
limb_leading_zeros(value) == LIMB_BITS - Bits(value)

leading_zeros(v) == IF v = <<>> THEN 0 ELSE limb_leading_zeros(v[Len(v)])

bit_length(v) == LIMB_BITS * Len(v) - leading_zeros(v)

(***************************************************************************)
(* Shifts (bigint.rs 1353-1419).                                           *)
(***************************************************************************)
\* The for loop of shl_bits.
RECURSIVE shl_bits_loop(_, _, _, _)
shl_bits_loop(v, n, prev, index) ==
    IF index < Len(v)
    THEN LET tmp == v[index + 1]
             xi == ((tmp * Pow(2, n)) % LimbBase) + (prev \div Pow(2, LIMB_BITS - n))
         IN  shl_bits_loop([v EXCEPT ![index + 1] = xi], n, tmp, index + 1)
    ELSE [v |-> v, prev |-> prev]

\* shl_bits without the carry pushed after the loop: a fault that an exact
\* shift must expose.
shl_bits_carry_lost(v, n) == Ok(shl_bits_loop(v, n, 0, 0).v)

\* shl_bits: the limbs are shifted in place, then the carry is pushed
\* (try_push(carry)?: None when the vector is full).
shl_bits(v, n) ==
    LET l == shl_bits_loop(v, n, 0, 0)
        carry == l.prev \div Pow(2, LIMB_BITS - n)
    IN  IF carry # 0
        THEN LET r == try_push(l.v, carry)
             IN  [st |-> IF r.ok THEN "ok" ELSE "none", v |-> r.v]
        ELSE Ok(l.v)

shl_limbs(v, n) ==
    IF n + Len(v) > SIZE
    THEN [st |-> "none", v |-> v]
    ELSE IF v # <<>> THEN Ok(Zeros(n) \o v) ELSE Ok(v)

\* shl: shl_bits(x, rem)? then shl_limbs(x, div)?
shl(v, n) ==
    LET rem == n % LIMB_BITS
        div == n \div LIMB_BITS
        r1 == IF rem # 0 THEN shl_bits(v, rem) ELSE Ok(v)
    IN  IF r1.st # "ok" THEN r1
        ELSE IF div # 0 THEN shl_limbs(r1.v, div) ELSE r1

(***************************************************************************)
(* Single-digit quotient and remainder (bigint.rs 1266-1326).              *)
(***************************************************************************)
\* One subtraction pass of large_quorem: x -= y * q over the m low limbs,
\* with the product carry and the borrow kept in Wide registers.
RECURSIVE quorem_loop(_, _, _, _, _, _, _)
quorem_loop(v, y, q, m, borrow, carry, j) ==
    IF j < m
    THEN LET p == y[j + 1] * q + carry
             t == (v[j + 1] - (p % LimbBase) - borrow) % WideBase
         IN  quorem_loop([v EXCEPT ![j + 1] = t % LimbBase], y, q, m,
                         (t \div LimbBase) % 2, p \div LimbBase, j + 1)
    ELSE v

\* large_quorem: q and the remainder left in x.  The two assert!s and the
\* overflow of yn_1 + 1 (a panic in a checked build, a division by zero in
\* an unchecked one) end in a panic.
large_quorem(v, y) ==
    IF y = <<>> \/ Len(v) > Len(y)
    THEN [st |-> "panic", v |-> v, q |-> 0]
    ELSE IF Len(v) < Len(y)
    THEN [st |-> "ok", v |-> v, q |-> 0]
    ELSE IF y[Len(y)] = LIMB_MAX
    THEN [st |-> "panic", v |-> v, q |-> 0]
    ELSE LET m == Len(v)
             q0 == v[m] \div (y[Len(y)] + 1)
             x1 == IF q0 # 0
                   THEN normalize(quorem_loop(v, y, q0, m, 0, 0, 0))
                   ELSE v
             under == compare(x1, y) # "Less"
             x2 == IF under
                   THEN normalize(quorem_loop(x1, y, 1, m, 0, 0, 0))
                   ELSE x1
         IN  [st |-> "ok", v |-> x2, q |-> IF under THEN q0 + 1 ELSE q0]

(***************************************************************************)
(* Multiplication (bigint.rs 1107-1249).                                   *)
(***************************************************************************)
\* Limbs at or below which karatsuba_mul bottoms out (32 in the source).
KARATSUBA_CUTOFF == 3

\* The for loop of long_mul over y[1..]: z += (x * yi) << index.
\* long_mul_next continues the loop with the sum r of one iteration.
RECURSIVE long_mul_loop(_, _, _, _)
RECURSIVE long_mul_next(_, _, _, _)
long_mul_next(r, x, y, index) ==
    IF r.st # "ok" THEN r ELSE long_mul_loop(r.v, x, y, index + 1)

long_mul_loop(z, x, y, index) ==
    IF index < Len(y)
    THEN IF y[index + 1] # 0
         THEN long_mul_next(
                  large_add_from(z, small_mul(try_from(x).v, y[index + 1]), index),
                  x, y, index)
         ELSE long_mul_loop(z, x, y, index + 1)
    ELSE Ok(z)

\* z.normalize() at the end of long_mul, on the result r of the loop.
long_mul_normalize(r) == IF r.st # "ok" THEN r ELSE Ok(normalize(r.v))

\* long_mul: grade-school multiplication, normalized at the end.
long_mul(x, y) ==
    IF ~try_from(x).ok
    THEN Panic(<<>>)
    ELSE IF y = <<>>
    THEN Ok(normalize(x))
    ELSE long_mul_normalize(long_mul_loop(small_mul(x, y[1]), x, y, 1))

\* karatsuba_split: (x[..index], x[index..])
karatsuba_split(x, index) ==
    [lo |-> SubSeq(x, 1, index), hi |-> SubSeq(x, index + 1, Len(x))]

\* karatsuba_mul and karatsuba_uneven_mul call each other.
RECURSIVE karatsuba_mul(_, _)
RECURSIVE uneven_loop(_, _, _, _)

\* The end of an iteration of the while loop of karatsuba_uneven_mul:
\* r is result after large_add_from, s the split of y, m the step.  An
\* iteration that leaves result, y and start as it found them is repeated
\* for ever: the call hangs.
uneven_next(result, r, x, y, s, start, m) ==
    IF r.st # "ok" THEN r
    ELSE IF r.v = result /\ s.hi = y /\ m = 0 THEN Hang(result)
    ELSE uneven_loop(r.v, x, s.hi, start + m)

\* large_add_from(&mut result, &prod, start)
uneven_add(result, prod, x, y, s, start, m) ==
    IF prod.st # "ok" THEN prod
    ELSE uneven_next(result, large_add_from(result, prod.v, start), x, y, s,
                     start, m)

\* let (yl, yh) = karatsuba_split(y, m); let prod = karatsuba_mul(x, yl);
uneven_step(result, x, y, s, start, m) ==
    uneven_add(result, karatsuba_mul(x, s.lo), x, y, s, start, m)

\* while !y.is_empty() { let m = x.len().min(y.len()); ... }
uneven_loop(result, x, y, start) ==
    IF y = <<>>
    THEN Ok(normalize(result))
    ELSE uneven_step(result, x, y, karatsuba_split(y, Min(Len(x), Len(y))),
                     start, Min(Len(x), Len(y)))

\* result.try_resize(x.len() + y.len(), 0).unwrap(), r its outcome.
uneven_resized(r, x, y) ==
    IF ~r.ok THEN Panic(<<>>) ELSE uneven_loop(r.v, x, y, 0)

karatsuba_uneven_mul(x, y) ==
    uneven_resized(try_resize(<<>>, Len(x) + Len(y), 0), x, y)

\* large_add_from(&mut result, &z2, 2 * m), r1 being result after z1 was
\* added.
karatsuba_add_z2(r1, z2, m) ==
    IF r1.st # "ok" THEN r1 ELSE large_add_from(r1.v, z2.v, 2 * m)

\* z1 -= z2; z1 -= z0; result = z0; large_add_from(&mut result, &z1, m); ...
karatsuba_combine(z0, z1, z2, m) ==
    IF z0.st # "ok" THEN z0
    ELSE IF z1.st # "ok" THEN z1
    ELSE IF z2.st # "ok" THEN z2
    ELSE karatsuba_add_z2(
             large_add_from(z0.v, large_sub(large_sub(z1.v, z2.v), z0.v), m),
             z2, m)

\* The three products z0, z1, z2 of the halves xs, ys and their sums.
karatsuba_products(xs, ys, sumx, sumy, m) ==
    IF sumx.st # "ok" THEN sumx
    ELSE IF sumy.st # "ok" THEN sumy
    ELSE karatsuba_combine(karatsuba_mul(xs.lo, ys.lo),
                           karatsuba_mul(sumx.v, sumy.v),
                           karatsuba_mul(xs.hi, ys.hi), m)

\* sumx = xl + xh, sumy = yl + yh
karatsuba_sums(xs, ys, m) ==
    karatsuba_products(xs, ys, large_add(xs.lo, xs.hi), large_add(ys.lo, ys.hi), m)

karatsuba_mul(x, y) ==
    IF Len(y) <= KARATSUBA_CUTOFF
    THEN long_mul(x, y)
    ELSE IF Len(x) < Len(y) \div 2
    THEN karatsuba_uneven_mul(x, y)
    ELSE karatsuba_sums(karatsuba_split(x, Len(y) \div 2),
                        karatsuba_split(y, Len(y) \div 2), Len(y) \div 2)

\* large_mul: small_mul for a one-limb y, else Karatsuba with the shorter
\* operand first.
large_mul(x, y) ==
    IF Len(y) = 1
    THEN Ok(small_mul(x, y[1]))
    ELSE IF Len(x) < Len(y)
    THEN karatsuba_mul(x, y)
    ELSE karatsuba_mul(y, x)

(***************************************************************************)
(* The Safety contract of karatsuba_mul (bigint.rs 1157-1160): y.len() >=  *)
(* x.len().  karatsuba_mul_safe(x, y) walks the calls karatsuba_mul(x, y)  *)
(* makes, in their order and as far as the call gets, and tells whether    *)
(* each of them, this one included, keeps the contract.                    *)
(***************************************************************************)
RECURSIVE karatsuba_mul_safe(_, _)

\* z0, then z1 unless z0 panicked, then z2 unless z1 did.
karatsuba_products_safe(xs, ys, sumx, sumy, z0, z1) ==
    /\ karatsuba_mul_safe(xs.lo, ys.lo)
    /\ z0.st = "ok" =>
           /\ karatsuba_mul_safe(sumx.v, sumy.v)
           /\ z1.st = "ok" => karatsuba_mul_safe(xs.hi, ys.hi)

karatsuba_sums_safe(xs, ys, sumx, sumy) ==
    (sumx.st = "ok" /\ sumy.st = "ok") =>
        karatsuba_products_safe(xs, ys, sumx, sumy, karatsuba_mul(xs.lo, ys.lo),
                                karatsuba_mul(sumx.v, sumy.v))

\* The calls karatsuba_mul(x, yl) of the while loop of
\* karatsuba_uneven_mul, one for each chunk of y.
RECURSIVE uneven_loop_safe(_, _)
uneven_loop_safe(x, y) ==
    IF y = <<>> THEN TRUE
    ELSE /\ karatsuba_mul_safe(x, karatsuba_split(y, Min(Len(x), Len(y))).lo)
         /\ (x # <<>> /\ karatsuba_mul(x, karatsuba_split(y, Len(x)).lo).st = "ok")
                => uneven_loop_safe(x, karatsuba_split(y, Min(Len(x), Len(y))).hi)

karatsuba_mul_safe(x, y) ==
    /\ Len(x) <= Len(y)
    /\ IF Len(y) <= KARATSUBA_CUTOFF THEN TRUE
       ELSE IF Len(x) < Len(y) \div 2
       THEN try_resize(<<>>, Len(x) + Len(y), 0).ok => uneven_loop_safe(x, y)
       ELSE karatsuba_sums_safe(karatsuba_split(x, Len(y) \div 2),
                                karatsuba_split(y, Len(y) \div 2),
                                large_add(karatsuba_split(x, Len(y) \div 2).lo,
                                          karatsuba_split(x, Len(y) \div 2).hi),
                                large_add(karatsuba_split(y, Len(y) \div 2).lo,
                                          karatsuba_split(y, Len(y) \div 2).hi))

\* The calls of karatsuba_mul made by large_mul.
large_mul_safe(x, y) ==
    IF Len(y) = 1 THEN TRUE
    ELSE IF Len(x) < Len(y) THEN karatsuba_mul_safe(x, y)
    ELSE karatsuba_mul_safe(y, x)

(***************************************************************************)
(* Radix tables (bigint.rs 1443-1484, limits.rs 622-710).                  *)
(*                                                                         *)
(* A build is "decimal" (no feature), "power-of-two" or "radix" (which     *)
(* enables power-of-two as well); cfg!(feature = ..) reads it.             *)
(***************************************************************************)
Builds == {"decimal", "power-of-two", "radix"}

FeaturePowerOfTwo(build) == build \in {"power-of-two", "radix"}

FeatureRadix(build) == build = "radix"

\* split_radix: (odd, shift), the match arms as written.
split_radix(build, radix) ==
    LET p2 == FeaturePowerOfTwo(build)
        rx == FeatureRadix(build)
        t(odd, shift) == [odd |-> odd, shift |-> shift]
    IN  CASE radix = 2 /\ p2 -> t(0, 1)
          [] radix = 3 /\ rx -> t(3, 0)
          [] radix = 4 /\ p2 -> t(0, 2)
          [] radix = 5 /\ rx -> t(5, 0)
          [] radix = 6 /\ rx -> t(3, 1)
          [] radix = 7 /\ rx -> t(7, 0)
          [] radix = 8 /\ p2 -> t(0, 3)
          [] radix = 9 /\ rx -> t(9, 0)
          [] radix = 10 -> t(5, 1)
          [] radix = 11 /\ rx -> t(11, 0)
          [] radix = 12 /\ rx -> t(6, 1)
          [] radix = 13 /\ rx -> t(13, 0)
          [] radix = 14 /\ rx -> t(7, 1)
          [] radix = 15 /\ rx -> t(15, 0)
          [] radix = 16 /\ p2 -> t(0, 4)
          [] radix = 17 /\ rx -> t(17, 0)
          [] radix = 18 /\ rx -> t(9, 1)
          [] radix = 19 /\ rx -> t(19, 0)
          [] radix = 20 /\ rx -> t(5, 2)
          [] radix = 21 /\ rx -> t(21, 0)
          [] radix = 22 /\ rx -> t(11, 1)
          [] radix = 23 /\ rx -> t(23, 0)
          [] radix = 24 /\ rx -> t(3, 3)
          [] radix = 25 /\ rx -> t(25, 0)
          [] radix = 26 /\ rx -> t(13, 1)
          [] radix = 27 /\ rx -> t(27, 0)
          [] radix = 28 /\ rx -> t(7, 2)
          [] radix = 29 /\ rx -> t(29, 0)
          [] radix = 30 /\ rx -> t(15, 1)
          [] radix = 31 /\ rx -> t(31, 0)
          [] radix = 32 /\ p2 -> t(0, 5)
          [] radix = 33 /\ rx -> t(33, 0)
          [] radix = 34 /\ rx -> t(17, 1)
          [] radix = 35 /\ rx -> t(35, 0)
          [] radix = 36 /\ rx -> t(9, 2)
          [] OTHER -> t(0, 0)

IsPow2(n) == \E k \in 0..5 : n = Pow(2, k)

\* integral_binary_factor (slow.rs 657-692): ceil(log2(radix)) for the
\* radixes that are not powers of two, 0 for the others.
integral_binary_factor(build, radix) ==
    IF radix \in 2..36 /\ ~IsPow2(radix)
       /\ (radix = 10 \/ FeatureRadix(build))
    THEN Bits(radix - 1)
    ELSE 0

\* The largest k with radix^k <= max (the rule the limit tables are generated by).
RECURSIVE PowerLimit(_, _)
PowerLimit(radix, max) ==
    IF radix > max THEN 0 ELSE 1 + PowerLimit(radix, max \div radix)

\* u64_power_limit: the arm of a radix exists when its feature is enabled
\* (10 always) and holds the largest power that fits a limb; otherwise 1.
u64_power_limit(build, radix) ==
    IF radix \in 2..36
       /\ (radix = 10
           \/ (IsPow2(radix) /\ FeaturePowerOfTwo(build))
           \/ (~IsPow2(radix) /\ FeatureRadix(build)))
    THEN PowerLimit(radix, LIMB_MAX)
    ELSE 1

\* The arm of a radix in the limit tables exists when its feature is
\* enabled (the arm of 10 always).
HasArm(build, radix) ==
    /\ radix \in 2..36
    /\ \/ radix = 10
       \/ (IsPow2(radix) /\ FeaturePowerOfTwo(build))
       \/ (~IsPow2(radix) /\ FeatureRadix(build))

\* The default arm of the limit tables taken for every radix: the fault of
\* a table without the arm of the radix.
power_limit_default_arm(build, radix) == 1

\* u32_power_limit with the values of its arms for radix 2..36, as written
\* for 32-bit registers.
u32_power_limit(build, radix) ==
    IF HasArm(build, radix)
    THEN <<31, 20, 15, 13, 12, 11, 10, 10, 9, 9, 8, 8, 8, 8, 7, 7, 7, 7, 7, 7,
           7, 7, 6, 6, 6, 6, 6, 6, 6, 6, 6, 6, 6, 6, 6>>[radix - 1]
    ELSE 1

\* u64_power_limit with the values of its arms for radix 2..36, as written
\* for 64-bit registers.
u64_power_limit_arms(build, radix) ==
    IF HasArm(build, radix)
    THEN <<63, 40, 31, 27, 24, 22, 21, 20, 19, 18, 17, 17, 16, 16, 15, 15, 15,
           15, 14, 14, 14, 14, 13, 13, 13, 13, 13, 13, 13, 12, 12, 12, 12, 12,
           12>>[radix - 1]
    ELSE 1

\* The default arm of the mantissa limits taken for every radix: the fault
\* of a table without the arm of the radix.
mantissa_limit_default_arm(build, radix) == 0

\* f32_exponent_limit: the values of its arms for radix 2..36, as (min, max).
f32_exponent_limit(build, radix) ==
    IF HasArm(build, radix)
    THEN <<<<-149, 127>>, <<-15, 15>>, <<-74, 63>>, <<-10, 10>>,
           <<-15, 15>>, <<-8, 8>>, <<-49, 42>>, <<-7, 7>>, <<-10, 10>>,
           <<-6, 6>>, <<-15, 15>>, <<-6, 6>>, <<-8, 8>>, <<-6, 6>>,
           <<-37, 31>>, <<-5, 5>>, <<-7, 7>>, <<-5, 5>>, <<-10, 10>>,
           <<-5, 5>>, <<-6, 6>>, <<-5, 5>>, <<-15, 15>>, <<-5, 5>>,
           <<-6, 6>>, <<-5, 5>>, <<-8, 8>>, <<-4, 4>>, <<-6, 6>>, <<-4, 4>>,
           <<-29, 25>>, <<-4, 4>>, <<-5, 5>>, <<-4, 4>>, <<-7, 7>>>>[radix - 1]
    ELSE <<0, 0>>

\* f32_mantissa_limit: the values of its arms for radix 2..36.
f32_mantissa_limit(build, radix) ==
    IF HasArm(build, radix)
    THEN <<24, 15, 12, 10, 9, 8, 8, 7, 7, 6, 6, 6, 6, 6, 6, 5, 5, 5, 5, 5,
           5, 5, 5, 5, 5, 5, 4, 4, 4, 4, 4, 4, 4, 4, 4>>[radix - 1]
    ELSE 0

\* f64_exponent_limit: the values of its arms for radix 2..36, as (min, max).
f64_exponent_limit(build, radix) ==
    IF HasArm(build, radix)
    THEN <<<<-1074, 1023>>, <<-33, 33>>, <<-537, 511>>, <<-22, 22>>,
           <<-33, 33>>, <<-18, 18>>, <<-358, 341>>, <<-16, 16>>,
           <<-22, 22>>, <<-15, 15>>, <<-33, 33>>, <<-14, 14>>, <<-18, 18>>,
           <<-13, 13>>, <<-268, 255>>, <<-12, 12>>, <<-16, 16>>,
           <<-12, 12>>, <<-22, 22>>, <<-12, 12>>, <<-15, 15>>, <<-11, 11>>,
           <<-33, 33>>, <<-11, 11>>, <<-14, 14>>, <<-11, 11>>, <<-18, 18>>,
           <<-10, 10>>, <<-13, 13>>, <<-10, 10>>, <<-214, 204>>,
           <<-10, 10>>, <<-12, 12>>, <<-10, 10>>, <<-16, 16>>>>[radix - 1]
    ELSE <<0, 0>>

\* f64_mantissa_limit: the values of its arms for radix 2..36.
f64_mantissa_limit(build, radix) ==
    IF HasArm(build, radix)
    THEN <<53, 33, 26, 22, 20, 18, 17, 16, 15, 15, 14, 14, 13, 13, 13, 12,
           12, 12, 12, 12, 11, 11, 11, 11, 11, 11, 11, 10, 10, 10, 10, 10,
           10, 10, 10>>[radix - 1]
    ELSE 0

(***************************************************************************)
(* Powers (bigint.rs 88-98, 863-894).                                      *)
(***************************************************************************)
\* The limbs of a number, least significant first, normalized.
RECURSIVE ToLimbs(_)
ToLimbs(n) == IF n = 0 THEN <<>> ELSE <<n % LimbBase>> \o ToLimbs(n \div LimbBase)

\* f64::int_pow_fast_path(exponent, radix): radix^exponent from a table.
int_pow_fast_path(exponent, radix) == Pow(radix, exponent)

\* The stride of a precomputed large power: five small steps.
large_power_step(base) == 5 * PowerLimit(base, LIMB_MAX)

\* get_large_int_power(base): (limbs of base^step, step).
get_large_int_power(base) ==
    [large |-> ToLimbs(Pow(base, large_power_step(base))),
     step |-> large_power_step(base)]

\* while exp >= step { large_mul(x, large); exp -= step; }
\* pow_large_next continues the loop with the product r of one iteration.
RECURSIVE pow_large_loop(_, _, _, _)
RECURSIVE pow_large_next(_, _, _, _)
pow_large_next(r, large, step, exp) ==
    IF r.st # "ok"
    THEN [st |-> r.st, v |-> r.v, exp |-> exp]
    ELSE pow_large_loop(r.v, large, step, exp - step)

pow_large_loop(v, large, step, exp) ==
    IF exp >= step
    THEN pow_large_next(large_mul(v, large), large, step, exp)
    ELSE [st |-> "ok", v |-> v, exp |-> exp]

\* while exp >= small_step { small_mul(x, max_native); exp -= small_step; }
RECURSIVE pow_small_loop(_, _, _, _)
pow_small_loop(v, max_native, small_step, exp) ==
    IF exp >= small_step
    THEN pow_small_loop(small_mul(v, max_native), max_native, small_step,
                        exp - small_step)
    ELSE [v |-> v, exp |-> exp]

\* if exp != 0 { small_mul(x, int_pow_fast_path(exp, base)) }, on the
\* state s the small-power loop left.
pow_short(s, base) ==
    IF s.exp # 0
    THEN Ok(small_mul(s.v, int_pow_fast_path(s.exp, base)))
    ELSE Ok(s.v)

\* The small powers, on the state l the large-power loop left.
pow_small(l, small_step, base) ==
    IF l.st # "ok"
    THEN [st |-> l.st, v |-> l.v]
    ELSE pow_short(pow_small_loop(l.v, Pow(base, small_step), small_step, l.exp),
                   base)

\* The large powers (large, step) = lp of the table.
pow_large(v, lp, exp) == pow_large_loop(v, lp.large, lp.step, exp)

\* pow: multiply by base^exp through large powers, small powers, and one
\* short power.
pow(build, v, base, exp) ==
    pow_small(pow_large(v, get_large_int_power(base), exp),
              u64_power_limit(build, base), base)

\* if shift != 0 { shl(&mut self.data, exp * shift); }: the Option that
\* shl returns is dropped (line 96).
Bigint_pow_shl(r, shift, exp) ==
    IF r.st # "ok" THEN r
    ELSE IF shift # 0 THEN Ok(shl(r.v, exp * shift).v)
    ELSE r

\* if odd != 0 { pow(&mut self.data, odd, exp) }
Bigint_pow_odd(build, v, sr, exp) ==
    Bigint_pow_shl(IF sr.odd # 0 THEN pow(build, v, sr.odd, exp) ELSE Ok(v),
                   sr.shift, exp)

\* Bigint::pow: the odd factor through pow, the power of two through shl.
Bigint_pow(build, v, base, exp) ==
    Bigint_pow_odd(build, v, split_radix(build, base), exp)

(***************************************************************************)
(* High bits (bigint.rs 241-268, 495-503, 713-826, 529-546).               *)
(***************************************************************************)
\* Bits of the u64 register of hi64 and of ExtendedFloat80.mant: one limb.
U64_BITS == LIMB_BITS

\* nonzero(x, rindex): some limb below the top rindex limbs is nonzero.
nonzero(v, rindex) == \E i \in 1..(Len(v) - rindex) : v[i] # 0

\* u64_to_hi64_1: shift out the leading zeros; nothing is truncated.
u64_to_hi64_1(r0) ==
    [mant |-> (r0 * Pow(2, limb_leading_zeros(r0) % U64_BITS)) % LimbBase,
     trunc |-> FALSE]

\* u64_to_hi64_2: the high bits of r0:r1 and whether r1 << ls is nonzero.
u64_to_hi64_2(r0, r1) ==
    LET ls == limb_leading_zeros(r0) % U64_BITS
        rs == U64_BITS - ls
    IN  [mant |-> IF ls = 0 THEN r0
                  ELSE ((r0 * Pow(2, ls)) % LimbBase) + (r1 \div Pow(2, rs)),
         trunc |-> (r1 * Pow(2, ls)) % LimbBase # 0]

\* StackVec::hi64 on 64-bit limbs.
hi64(v) ==
    CASE Len(v) = 0 -> [mant |-> 0, trunc |-> FALSE]
      [] Len(v) = 1 -> u64_to_hi64_1(v[1])
      [] Len(v) = 2 -> u64_to_hi64_2(v[2], v[1])
      [] OTHER -> LET h == u64_to_hi64_2(v[Len(v)], v[Len(v) - 1])
                  IN  [mant |-> h.mant, trunc |-> h.trunc \/ nonzero(v, 2)]

\* StackVec::from_u64 on 64-bit limbs.
from_u64(x) == normalize(<<x>>)

\* Bits of the u32 and u16 registers, in proportion to the u64 register.
U32_BITS == U64_BITS \div 2

U16_BITS == U32_BITS \div 2

\* u32::leading_zeros and u64::leading_zeros
u32_leading_zeros(r) == U32_BITS - Bits(r)

u64_leading_zeros(r) == U64_BITS - Bits(r)

\* u32_to_hi32_1: shift out the leading zeros; nothing is truncated.
u32_to_hi32_1(r0) ==
    [mant |-> (r0 * Pow(2, u32_leading_zeros(r0) % U32_BITS)) % Pow(2, U32_BITS),
     trunc |-> FALSE]

\* u32_to_hi32_2: the high bits of r0:r1 and whether r1 << ls is nonzero.
u32_to_hi32_2(r0, r1) ==
    LET ls == u32_leading_zeros(r0) % U32_BITS
        rs == U32_BITS - ls
    IN  [mant |-> IF ls = 0 THEN r0
                  ELSE ((r0 * Pow(2, ls)) % Pow(2, U32_BITS)) + (r1 \div Pow(2, rs)),
         trunc |-> (r1 * Pow(2, ls)) % Pow(2, U32_BITS) # 0]

\* ((r0 >> 16) as u16, n || r0 as u16 != 0) on the u32 register r0.
u32_high_u16(r0, n) ==
    [mant |-> r0 \div Pow(2, U32_BITS - U16_BITS),
     trunc |-> n \/ r0 % Pow(2, U16_BITS) # 0]

u32_to_hi16_1(r0) == u32_high_u16(u32_to_hi32_1(r0).mant, FALSE)

u32_to_hi16_2(r0, r1) ==
    u32_high_u16(u32_to_hi32_2(r0, r1).mant, u32_to_hi32_2(r0, r1).trunc)

u32_to_hi64_1(r0) == u64_to_hi64_1(r0)

\* u64_to_hi64_1(((r0 as u64) << 32) | r1 as u64)
u32_to_hi64_2(r0, r1) == u64_to_hi64_1(r0 * Pow(2, U32_BITS) + r1)

\* u64_to_hi64_2(r0 as u64, ((r1 as u64) << 32) | r2 as u64)
u32_to_hi64_3(r0, r1, r2) == u64_to_hi64_2(r0, r1 * Pow(2, U32_BITS) + r2)

\* ((r0 >> 48) as u16, n || r0 as u16 != 0) on the u64 register r0.
u64_high_u16(r0, n) ==
    [mant |-> (r0 \div Pow(2, U64_BITS - U16_BITS)) % Pow(2, U16_BITS),
     trunc |-> n \/ r0 % Pow(2, U16_BITS) # 0]

u64_to_hi16_1(r0) == u64_high_u16(u64_to_hi64_1(r0).mant, FALSE)

u64_to_hi16_2(r0, r1) ==
    u64_high_u16(u64_to_hi64_2(r0, r1).mant, u64_to_hi64_2(r0, r1).trunc)

\* ((r0 >> 32) as u32, n || r0 as u32 != 0) on the u64 register r0.
u64_high_u32(r0, n) ==
    [mant |-> (r0 \div Pow(2, U64_BITS - U32_BITS)) % Pow(2, U32_BITS),
     trunc |-> n \/ r0 % Pow(2, U32_BITS) # 0]

u64_to_hi32_1(r0) == u64_high_u32(u64_to_hi64_1(r0).mant, FALSE)

u64_to_hi32_2(r0, r1) ==
    u64_high_u32(u64_to_hi64_2(r0, r1).mant, u64_to_hi64_2(r0, r1).trunc)

\* hi!(@nonzero2 ..) and hi!(@nonzero3 ..): (v, n || nonzero(self, k)).
\* asserted is the debug_assert!(rindex < x.len()) of nonzero, its
\* documented precondition: a build without debug assertions goes on
\* with the value, one with them panics when it is FALSE.
hi_nonzero(h, v, rindex) ==
    [mant |-> h.mant, trunc |-> h.trunc \/ nonzero(v, rindex),
     asserted |-> rindex < Len(v)]

\* The limb rview[i] of the reversed view: the top limb is rview[0].
rview(v, i) == v[Len(v) - i]

\* StackVec::hi16, hi32 and hi64 of a vector whose limbs have limb_bits bits
\* (LIMB_BITS == 32 is limb_bits = U32_BITS).
StackVec_hi16(limb_bits, v) ==
    CASE Len(v) = 0 -> [mant |-> 0, trunc |-> FALSE]
      [] Len(v) = 1 /\ limb_bits = U32_BITS -> u32_to_hi16_1(rview(v, 0))
      [] Len(v) = 1 /\ limb_bits # U32_BITS -> u64_to_hi16_1(rview(v, 0))
      [] Len(v) > 1 /\ limb_bits = U32_BITS ->
            hi_nonzero(u32_to_hi16_2(rview(v, 0), rview(v, 1)), v, 2)
      [] OTHER -> hi_nonzero(u64_to_hi16_2(rview(v, 0), rview(v, 1)), v, 2)

StackVec_hi32(limb_bits, v) ==
    CASE Len(v) = 0 -> [mant |-> 0, trunc |-> FALSE]
      [] Len(v) = 1 /\ limb_bits = U32_BITS -> u32_to_hi32_1(rview(v, 0))
      [] Len(v) = 1 /\ limb_bits # U32_BITS -> u64_to_hi32_1(rview(v, 0))
      [] Len(v) > 1 /\ limb_bits = U32_BITS ->
            hi_nonzero(u32_to_hi32_2(rview(v, 0), rview(v, 1)), v, 2)
      [] OTHER -> hi_nonzero(u64_to_hi32_2(rview(v, 0), rview(v, 1)), v, 2)

StackVec_hi64(limb_bits, v) ==
    CASE Len(v) = 0 -> [mant |-> 0, trunc |-> FALSE]
      [] Len(v) = 1 /\ limb_bits = U32_BITS -> u32_to_hi64_1(rview(v, 0))
      [] Len(v) = 1 /\ limb_bits # U32_BITS -> u64_to_hi64_1(rview(v, 0))
      [] Len(v) = 2 /\ limb_bits = U32_BITS -> u32_to_hi64_2(rview(v, 0), rview(v, 1))
      [] Len(v) = 2 /\ limb_bits # U32_BITS -> u64_to_hi64_2(rview(v, 0), rview(v, 1))
      [] Len(v) > 2 /\ limb_bits = U32_BITS ->
            hi_nonzero(u32_to_hi64_3(rview(v, 0), rview(v, 1), rview(v, 2)), v, 3)
      [] OTHER -> hi_nonzero(u64_to_hi64_2(rview(v, 0), rview(v, 1)), v, 2)

(***************************************************************************)
(* The float format and the shared rounder.  shared.rs and float.rs are    *)
(* not part of the sources at hand: these definitions follow the           *)
(* description of the rounder.  An ExtendedFloat80 [mant, exp] stands for  *)
(* mant * 2^exp; the rounder returns the mantissa without its hidden bit   *)
(* and the biased exponent.  The format is a binary float of               *)
(* MANTISSA_SIZE explicit mantissa bits that fits the scaled register.     *)
(***************************************************************************)
MANTISSA_SIZE == 1

\* Bias of the exponent field, and the exponent field of an infinity.
IEEE_BIAS == 15

INFINITE_POWER == 31

EXPONENT_BIAS == IEEE_BIAS + MANTISSA_SIZE

DENORMAL_EXPONENT == 1 - EXPONENT_BIAS

HIDDEN_BIT_MASK == Pow(2, MANTISSA_SIZE)

CARRY_MASK == Pow(2, MANTISSA_SIZE + 1)

\* round_nearest_tie_even: drop the low shift bits and add one when
\* cb(is_odd, is_halfway, is_above) says so.  The closure cb is a function
\* of the three flags.
round_nearest_tie_even(fp, shift, cb) ==
    LET halfway == Pow(2, shift - 1)
        truncated_bits == fp.mant % Pow(2, shift)
        is_above == truncated_bits > halfway
        is_halfway == truncated_bits = halfway
        mant == fp.mant \div Pow(2, shift)
        is_odd == mant % 2 = 1
    IN  [mant |-> mant + BoolToLimb(cb[is_odd, is_halfway, is_above]), exp |-> 0]

\* round_down: drop the low shift bits.
round_down(fp, shift) == [mant |-> fp.mant \div Pow(2, shift), exp |-> 0]

\* The rounding closures handed to round: shared::round_down, or
\* round_nearest_tie_even with the closure up.
RoundDown == [fn |-> "round_down"]

RoundNearest(up) == [fn |-> "round_nearest_tie_even", up |-> up]

round_cb(cb, fp, shift) ==
    IF cb.fn = "round_down"
    THEN round_down(fp, shift)
    ELSE round_nearest_tie_even(fp, shift, cb.up)

\* round: shift the mantissa to the width of the float through cb, by more
\* when the value is subnormal; carry into the exponent, overflow to
\* infinity, remove the hidden bit.
round(fp, cb) ==
    LET mantissa_shift == U64_BITS - MANTISSA_SIZE - 1
        biased == fp.exp + mantissa_shift + EXPONENT_BIAS
    IN  IF biased <= 0
        THEN LET r == round_cb(cb, fp, Min(mantissa_shift + 1 - biased, U64_BITS))
             IN  [mant |-> r.mant % HIDDEN_BIT_MASK,
                  exp |-> IF r.mant >= HIDDEN_BIT_MASK THEN 1 ELSE 0]
        ELSE LET r == round_cb(cb, fp, mantissa_shift)
                 carry == r.mant >= CARRY_MASK
                 mant == IF carry THEN r.mant \div 2 ELSE r.mant
                 exp == IF carry THEN biased + 1 ELSE biased
             IN  IF exp >= INFINITE_POWER
                 THEN [mant |-> 0, exp |-> INFINITE_POWER]
                 ELSE [mant |-> mant % HIDDEN_BIT_MASK, exp |-> exp]

\* extended_to_float followed by RawFloat::mantissa / RawFloat::exponent:
\* the significand with its hidden bit and the exponent of its last bit.
float_mantissa(f) == IF f.exp = 0 THEN f.mant ELSE f.mant + HIDDEN_BIT_MASK

float_exponent(f) == IF f.exp = 0 THEN DENORMAL_EXPONENT ELSE f.exp - EXPONENT_BIAS

(***************************************************************************)
(* Digit comparison (slow.rs 116-224, 638-653).                            *)
(***************************************************************************)
\* b: the float as an extended float.
b(f) == [mant |-> float_mantissa(f), exp |-> float_exponent(f)]

\* bh: the halfway point above b.
bh(f) == [mant |-> 2 * b(f).mant + 1, exp |-> b(f).exp - 1]

\* The closure of positive_digit_comp handed to round_nearest_tie_even.
positive_up(is_truncated) ==
    [is_odd \in BOOLEAN, is_halfway \in BOOLEAN, is_above \in BOOLEAN |->
        is_above \/ (is_odd /\ is_truncated) \/ (is_odd /\ is_halfway)]

\* let mut fp = ExtendedFloat80 { mant, exp }; shared::round(&mut fp, ...),
\* p being bigmant after pow, h the outcome of hi64 and exp the exponent.
positive_round(p, h, exp) ==
    IF p.st # "ok"
    THEN [st |-> p.st, fp |-> [mant |-> h.mant, exp |-> exp]]
    ELSE [st |-> "ok",
          fp |-> round([mant |-> h.mant, exp |-> exp],
                       RoundNearest(positive_up(h.trunc)))]

\* let (mant, is_truncated) = bigmant.hi64();
\* let exp = bigmant.bit_length() as i32 - 64;
positive_hi64(p) == positive_round(p, hi64(p.v), bit_length(p.v) - U64_BITS)

positive_digit_comp(build, radix, bigmant, exponent) ==
    positive_hi64(Bigint_pow(build, bigmant, radix, exponent))

\* One Bigint::pow of negative_digit_comp, skipped when cond is false; a
\* panic of an earlier one is kept.
pow_if(cond, build, r, base, exp) ==
    IF r.st # "ok" \/ ~cond THEN r ELSE Bigint_pow(build, r.v, base, exp)

\* The closure of negative_digit_comp handed to round_nearest_tie_even.
negative_up(ord) ==
    [is_odd \in BOOLEAN, is_halfway \in BOOLEAN, is_above \in BOOLEAN |->
        ord = "Greater" \/ (ord = "Equal" /\ is_odd)]

\* shared::round(&mut fp, ...) with the ordering ord of the digits.
negative_round(theor_digits, real_digits, theor, fp, ord) ==
    [st |-> IF theor_digits.st # "ok" THEN theor_digits.st ELSE real_digits.st,
     ord |-> ord,
     theor |-> theor,
     fp |-> round(fp, RoundNearest(negative_up(ord)))]

\* let ord = real_digits.data.cmp(&theor_digits.data);
negative_compare(theor_digits, real_digits, theor, fp) ==
    negative_round(theor_digits, real_digits, theor, fp,
                   compare(real_digits.v, theor_digits.v))

\* The four conditional pow calls that scale theor_digits and real_digits.
negative_scale(build, radix, bigmant, fp, theor, binary_exp, halfradix_exp, radix_exp) ==
    negative_compare(
        pow_if(binary_exp > 0, build,
               pow_if(radix_exp # 0, build,
                      pow_if(halfradix_exp # 0, build,
                             Ok(from_u64(theor.mant)), radix \div 2,
                             halfradix_exp),
                      radix, radix_exp),
               2, binary_exp),
        pow_if(binary_exp < 0, build, Ok(bigmant), 2, -binary_exp),
        theor, fp)

\* let (binary_exp, halfradix_exp, radix_exp) = match radix.is_even() {..}
negative_exps(build, radix, bigmant, fp, theor, real_exp) ==
    IF radix % 2 = 0
    THEN negative_scale(build, radix, bigmant, fp, theor,
                        theor.exp - real_exp, -real_exp, 0)
    ELSE negative_scale(build, radix, bigmant, fp, theor,
                        theor.exp, 0, -real_exp)

negative_digit_comp(build, radix, bigmant, fp, exponent) ==
    negative_exps(build, radix, bigmant, fp, bh(round(fp, RoundDown)), exponent)

(***************************************************************************)
(* The algorithm for radixes that are powers of two (binary.rs).  A Number *)
(* is [mantissa, exponent, many_digits]; the mantissa is a u64 register.   *)
(* calculate_power2, calculate_shift, lower_n_halfway and INVALID_FP       *)
(* belong to shared.rs and mask.rs, which are not part of the sources at   *)
(* hand: they follow the description of the rounder (the subnormal shift   *)
(* and the sentinel that biases an unresolved exponent).                   *)
(***************************************************************************)
INVALID_FP == -32768

\* log2 of the exponent base 2, 4, 8, 16, 32.
log2(radix) == Bits(radix) - 1

\* calculate_power2: the biased exponent of the last bit of the normalized
\* mantissa.
calculate_power2(radix, exponent, ctlz) == exponent * log2(radix) + EXPONENT_BIAS - ctlz

\* calculate_shift: the shift to the hidden bit, or further for a denormal.
calculate_shift(power2) ==
    IF -power2 >= U64_BITS - MANTISSA_SIZE - 1
    THEN -power2 + 1
    ELSE U64_BITS - MANTISSA_SIZE - 1

\* lower_n_halfway(n): the bit below the n-th bit alone.
lower_n_halfway(n) == IF n = 0 THEN 0 ELSE Pow(2, n - 1)

\* The end of shift_and_round!: the overflow check and the removal of the
\* hidden bit.
shift_and_round_pack(mantissa, power2) ==
    IF power2 >= INFINITE_POWER
    THEN [mant |-> 0, exp |-> INFINITE_POWER]
    ELSE [mant |-> mantissa % HIDDEN_BIT_MASK, exp |-> power2]

\* if $mantissa & carry_mask == carry_mask { $mantissa >>= 1; $power2 += 1; }
shift_and_round_carry(mantissa, power2) ==
    IF (mantissa \div CARRY_MASK) % 2 = 1
    THEN shift_and_round_pack(mantissa \div 2, power2 + 1)
    ELSE shift_and_round_pack(mantissa, power2)

\* shift_and_round!: $mantissa >>= shift; $power2 += shift;
\* $mantissa += $roundup; ...
shift_and_round(mantissa, power2, roundup) ==
    shift_and_round_carry(
        mantissa \div Pow(2, calculate_shift(power2)) + BoolToLimb(roundup),
        power2 + calculate_shift(power2))

\* binary_round without the halfway test: every mantissa is rounded down.
binary_round_down(mantissa, power2, shift, lossy, many_digits) ==
    shift_and_round(mantissa, power2, FALSE)

\* binary after the test for zero: mantissa is normalized, shift the shift
\* to the hidden bit.
binary_round(mantissa, power2, shift, lossy, many_digits) ==
    LET last_bit == Pow(2, shift)
        truncated == mantissa % last_bit
        halfway == lower_n_halfway(shift)
        is_even == (mantissa \div last_bit) % 2 = 0
        is_halfway == truncated = halfway
        is_above == truncated > halfway
    IN  IF ~lossy /\ is_even /\ is_halfway /\ many_digits
        THEN [mant |-> mantissa, exp |-> power2 + INVALID_FP]
        ELSE shift_and_round(mantissa, power2, is_above \/ (~is_even /\ is_halfway))

\* binary after the mantissa is normalized.
binary_power2(mantissa, power2, lossy, many_digits) ==
    IF -power2 + 1 >= U64_BITS
    THEN [mant |-> 0, exp |-> 0]
    ELSE binary_round(mantissa, power2, calculate_shift(power2), lossy, many_digits)

binary(radix, num, lossy) ==
    binary_power2(num.mantissa * Pow(2, u64_leading_zeros(num.mantissa)),
                  calculate_power2(radix, num.exponent, u64_leading_zeros(num.mantissa)),
                  lossy, num.many_digits)

\* checked_add_digit! over the digits from index on: the mantissa takes
\* digits until one overflows the u64; zero tells whether that digit and
\* all the following ones are 0.
RECURSIVE checked_add_digits(_, _, _, _, _, _)
\* checked_add_digit! without `$zero &= ($digit == 0)` in the branch that
\* finds the overflow: the first digit that does not fit is forgotten.
checked_add_digits_first_lost(radix, digits, index, mant, overflowed, zero) ==
    IF index > Len(digits)
    THEN [mantissa |-> mant, zero |-> zero]
    ELSE IF ~overflowed /\ mant * radix + digits[index] < Pow(2, U64_BITS)
    THEN checked_add_digits(radix, digits, index + 1,
                            mant * radix + digits[index], FALSE, zero)
    ELSE checked_add_digits(radix, digits, index + 1, mant, TRUE,
                            zero /\ (overflowed => digits[index] = 0))

checked_add_digits(radix, digits, index, mant, overflowed, zero) ==
    IF index > Len(digits)
    THEN [mantissa |-> mant, zero |-> zero]
    ELSE IF ~overflowed /\ mant * radix + digits[index] < Pow(2, U64_BITS)
    THEN checked_add_digits(radix, digits, index + 1,
                            mant * radix + digits[index], FALSE, zero)
    ELSE checked_add_digits(radix, digits, index + 1, mant, TRUE,
                            zero /\ digits[index] = 0)

\* slow_binary after its digits are parsed into p.
slow_binary_round(radix, p, exponent) ==
    shift_and_round(p.mantissa * Pow(2, u64_leading_zeros(p.mantissa)),
                    calculate_power2(radix, exponent, u64_leading_zeros(p.mantissa)),
                    ~p.zero)

\* slow_binary: the integer digits, then the fraction digits, are parsed by
\* the same closure; exponent is the one the parser found.
slow_binary(radix, integer, fraction, exponent) ==
    slow_binary_round(radix,
                      checked_add_digits(radix, integer \o fraction, 1, 0, FALSE, TRUE),
                      exponent)

(***************************************************************************)
(* The comparison of the input digits with the theoretical digits          *)
(* (slow.rs 395-470, 572-598).  The input is a sequence of bytes and an    *)
(* index into it: the integer and the fraction iterator of Bytes advance   *)
(* the same position.  Bytes, char_is_digit_const and digit_to_char_const  *)
(* belong to lexical-util, which is not part of the sources at hand; for   *)
(* radixes up to 10 the digits are the bytes from b'0' on.                 *)
(***************************************************************************)
ZERO_BYTE == 48

char_is_digit_const(c, radix) == c >= ZERO_BYTE /\ c < ZERO_BYTE + radix

digit_to_char_const(digit, radix) == ZERO_BYTE + digit

\* skip_zeros: the index of the first byte from index on that is not b'0'.
RECURSIVE skip_zeros(_, _)
skip_zeros(bytes, index) ==
    IF index <= Len(bytes) /\ bytes[index] = ZERO_BYTE
    THEN skip_zeros(bytes, index + 1)
    ELSE index

\* fraction_compare_rest without the scan: the digits after the last
\* theoretical digit are taken to be zeros.
fraction_compare_rest_unread(bytes, index, radix) == "Equal"

\* The for loop at the end of fraction_compare!.
RECURSIVE fraction_compare_rest(_, _, _)
fraction_compare_rest(bytes, index, radix) ==
    IF index > Len(bytes) THEN "Equal"
    ELSE IF ~char_is_digit_const(bytes[index], radix) THEN "Equal"
    ELSE IF bytes[index] # ZERO_BYTE THEN "Greater"
    ELSE fraction_compare_rest(bytes, index + 1, radix)

\* fraction_compare!: fraction_compare_digit compares the byte at index
\* with the digit the quotient r gives and goes on with the remainder.
RECURSIVE fraction_compare(_, _, _, _, _)
fraction_compare_digit(bytes, index, r, den, radix) ==
    IF r.st # "ok" THEN "panic"
    ELSE IF bytes[index] < digit_to_char_const(r.q, radix) THEN "Less"
    ELSE IF bytes[index] > digit_to_char_const(r.q, radix) THEN "Greater"
    ELSE fraction_compare(bytes, index + 1, small_mul(r.v, radix), den, radix)

fraction_compare(bytes, index, num, den, radix) ==
    IF num = <<>> THEN fraction_compare_rest(bytes, index, radix)
    ELSE IF index > Len(bytes) THEN "Less"
    ELSE IF char_is_digit_const(bytes[index], radix)
    THEN fraction_compare_digit(bytes, index, large_quorem(num, den), den, radix)
    ELSE "Less"

\* The for loop at the end of integer_compare!, then fraction_compare!
\* with the numerator empty.
RECURSIVE integer_compare_rest(_, _, _, _, _)
integer_compare_rest(bytes, index, den, radix, decimal_point) ==
    IF index > Len(bytes) THEN fraction_compare(bytes, index, <<>>, den, radix)
    ELSE IF bytes[index] = decimal_point
    THEN fraction_compare(bytes, index + 1, <<>>, den, radix)
    ELSE IF ~char_is_digit_const(bytes[index], radix) THEN "Equal"
    ELSE IF bytes[index] # ZERO_BYTE THEN "Greater"
    ELSE integer_compare_rest(bytes, index + 1, den, radix, decimal_point)

\* integer_compare!, followed by fraction_compare! when it does not return.
RECURSIVE integer_compare(_, _, _, _, _, _)
integer_compare_digit(bytes, index, r, den, radix, decimal_point) ==
    IF r.st # "ok" THEN "panic"
    ELSE IF bytes[index] < digit_to_char_const(r.q, radix) THEN "Less"
    ELSE IF bytes[index] > digit_to_char_const(r.q, radix) THEN "Greater"
    ELSE integer_compare(bytes, index + 1, small_mul(r.v, radix), den, radix,
                         decimal_point)

integer_compare(bytes, index, num, den, radix, decimal_point) ==
    IF num = <<>>
    THEN integer_compare_rest(bytes, index, den, radix, decimal_point)
    ELSE IF index > Len(bytes) THEN "Less"
    ELSE IF bytes[index] = decimal_point
    THEN fraction_compare(bytes, index + 1, num, den, radix)
    ELSE IF char_is_digit_const(bytes[index], radix)
    THEN integer_compare_digit(bytes, index, large_quorem(num, den), den, radix,
                               decimal_point)
    ELSE "Less"

\* compare_bytes after the leading zeros of the integer are skipped.
compare_bytes_from(bytes, index, num, den, radix, decimal_point) ==
    IF index <= Len(bytes) /\ bytes[index] = decimal_point
    THEN fraction_compare(bytes, skip_zeros(bytes, index + 1), num, den, radix)
    ELSE integer_compare(bytes, index, num, den, radix, decimal_point)

compare_bytes(bytes, num, den, radix, decimal_point) ==
    compare_bytes_from(bytes, skip_zeros(bytes, 1), num, den, radix, decimal_point)

(***************************************************************************)
(* The scientific exponent of a Number (slow.rs 603-634).  The mantissa    *)
(* and the radix are u64, the exponent i64; the values of the model are    *)
(* far from either range.                                                  *)
(***************************************************************************)
\* One pass of `if` in place of the `while`: a fault the reduction
\* tolerates only for short mantissas.
scientific_exponent_once(mantissa, exponent, power, step) ==
    IF mantissa >= power
    THEN [mantissa |-> mantissa \div power, exponent |-> exponent + step]
    ELSE [mantissa |-> mantissa, exponent |-> exponent]

\* while mantissa >= power { mantissa /= power; exponent += step; }
RECURSIVE scientific_exponent_loop(_, _, _, _)
scientific_exponent_loop(mantissa, exponent, power, step) ==
    IF mantissa >= power
    THEN scientific_exponent_loop(mantissa \div power, exponent + step, power, step)
    ELSE [mantissa |-> mantissa, exponent |-> exponent]

\* The loops over radix^2 and radix, on the state s the first loop left.
scientific_exponent_radix(s, radix) ==
    scientific_exponent_loop(s.mantissa, s.exponent, radix, 1).exponent

scientific_exponent_radix2(s, radix) ==
    scientific_exponent_radix(
        scientific_exponent_loop(s.mantissa, s.exponent, radix * radix, 2), radix)

scientific_exponent(radix, num) ==
    scientific_exponent_radix2(
        scientific_exponent_loop(num.mantissa, num.exponent,
                                 (radix * radix) * (radix * radix), 4),
        radix)

(***************************************************************************)
(* parse_mantissa (slow.rs 205-393): the digits of the significand, up to  *)
(* max_digits of them, as a big integer.  The iterators of Bytes           *)
(* (lexical-util, not part of the sources at hand) are modelled as one     *)
(* cursor over the bytes: integer_iter and fraction_iter both yield the    *)
(* next byte and move past it.  A state of the parse is                    *)
(* [result, counter, count, value].                                        *)
(***************************************************************************)
\* char_to_digit_const of lexical-util for the digits '0' to '9'.
char_to_digit_const(c, radix) == c - ZERO_BYTE

\* step and max_native: the digits that fit a limb, and the radix to that
\* power (the rule of u32_power_limit and u64_power_limit, for the limb of
\* the model).
parse_step(radix) == PowerLimit(radix, LIMB_MAX)

\* add_temporary!(@max ...): counter and value start again from 0.
add_temporary_max(s, max_native) ==
    [s EXCEPT !.result = small_add(small_mul(s.result, max_native), s.value),
              !.counter = 0, !.value = 0]

\* add_temporary!(format, ...): the digits held in value, if any.
add_temporary(s, radix) ==
    IF s.counter # 0
    THEN small_add(small_mul(s.result, int_pow_fast_path(s.counter, radix)), s.value)
    ELSE s.result

\* add_digit! down to the test of max_digits.
add_digit_counted(s, radix) ==
    IF s.counter = parse_step(radix)
    THEN add_temporary_max(s, Pow(radix, parse_step(radix)))
    ELSE s

add_digit(s, radix, digit) ==
    add_digit_counted([s EXCEPT !.value = (s.value * radix + digit) % LimbBase,
                                !.counter = s.counter + 1,
                                !.count = s.count + 1],
                      radix)

\* A round_up_fraction! that never looks at the digits left.
round_up_fraction_never(radix, bytes, index, result, count) ==
    [result |-> result, count |-> count]

\* round_up_fraction!: one more if a digit of the fraction is not '0'.
RECURSIVE round_up_fraction(_, _, _, _, _)
round_up_fraction(radix, bytes, index, result, count) ==
    IF index > Len(bytes) THEN [result |-> result, count |-> count]
    ELSE IF ~char_is_digit_const(bytes[index], radix)
    THEN [result |-> result, count |-> count]
    ELSE IF bytes[index] # ZERO_BYTE
    THEN [result |-> small_add(result, 1), count |-> count]
    ELSE round_up_fraction(radix, bytes, index + 1, result, count)

\* The closure of the integer digits: the digits left before the decimal
\* point, then those of the fraction.
RECURSIVE round_up_integer(_, _, _, _, _, _)
round_up_integer(radix, bytes, decimal_point, index, result, count) ==
    IF index > Len(bytes) THEN round_up_fraction(radix, bytes, index, result, count)
    ELSE IF bytes[index] = decimal_point
    THEN round_up_fraction(radix, bytes, index + 1, result, count)
    ELSE IF ~char_is_digit_const(bytes[index], radix)
    THEN [result |-> result, count |-> count]
    ELSE IF bytes[index] # ZERO_BYTE
    THEN [result |-> small_add(result, 1), count |-> count]
    ELSE round_up_integer(radix, bytes, decimal_point, index + 1, result, count)

\* The loop over the fraction digits, and the end of parse_mantissa.
RECURSIVE parse_fraction(_, _, _, _, _)
parse_fraction_digit(radix, bytes, max_digits, index, s) ==
    IF s.count = max_digits
    THEN round_up_fraction(radix, bytes, index + 1, add_temporary(s, radix), s.count)
    ELSE parse_fraction(radix, bytes, max_digits, index + 1, s)

parse_fraction(radix, bytes, max_digits, index, s) ==
    IF index > Len(bytes) \/ ~char_is_digit_const(bytes[index], radix)
    THEN [result |-> add_temporary(s, radix), count |-> s.count]
    ELSE parse_fraction_digit(
             radix, bytes, max_digits, index,
             add_digit(s, radix, char_to_digit_const(bytes[index], radix)))

\* The loop over the integer digits.
RECURSIVE parse_integer(_, _, _, _, _, _)
parse_integer_digit(radix, bytes, decimal_point, max_digits, index, s) ==
    IF s.count = max_digits
    THEN round_up_integer(radix, bytes, decimal_point, index + 1,
                          add_temporary(s, radix), s.count)
    ELSE parse_integer(radix, bytes, decimal_point, max_digits, index + 1, s)

parse_integer(radix, bytes, decimal_point, max_digits, index, s) ==
    IF index > Len(bytes) THEN parse_fraction(radix, bytes, max_digits, index, s)
    ELSE IF char_is_digit_const(bytes[index], radix)
    THEN parse_integer_digit(
             radix, bytes, decimal_point, max_digits, index,
             add_digit(s, radix, char_to_digit_const(bytes[index], radix)))
    ELSE IF bytes[index] = decimal_point
    THEN parse_fraction(radix, bytes, max_digits, index + 1, s)
    ELSE [result |-> add_temporary(s, radix), count |-> s.count]

parse_mantissa(radix, bytes, decimal_point, max_digits) ==
    parse_integer(radix, bytes, decimal_point, max_digits, 1,
                  [result |-> <<>>, counter |-> 0, count |-> 0, value |-> 0])

(***************************************************************************)
(* The scaling of the ratio in byte_comp (slow.rs 523-553), on limbs of    *)
(* limb_bits bits.  Here the limb widths are a quarter of the real ones,   *)
(* so that the leading zeros integral_binary_factor asks for (2 to 6) fit  *)
(* a limb of either width: LIMB_BITS == 32 is NARROW_LIMB_BITS and         *)
(* LIMB_BITS == 64 is WIDE_LIMB_BITS; the literal 32 of the mask           *)
(* `& (32 - 1)` is NARROW_LIMB_BITS as well.  `debug` tells whether the    *)
(* build has debug assertions and overflow checks: with them a failed      *)
(* debug_assert! panics, without them a shift by the width of the limb     *)
(* wraps to a shift by 0.  A Bigfloat is [data, exp].                      *)
(***************************************************************************)
NARROW_LIMB_BITS == 8

WIDE_LIMB_BITS == 16

RECURSIVE BitOr(_, _)
BitOr(a, c) ==
    IF a = 0 THEN c
    ELSE IF c = 0 THEN a
    ELSE (IF a % 2 = 1 \/ c % 2 = 1 THEN 1 ELSE 0) + 2 * BitOr(a \div 2, c \div 2)

\* Bigfloat::leading_zeros: the leading zeros of the top limb.
Bigfloat_leading_zeros(limb_bits, data) ==
    IF data = <<>> THEN 0 ELSE limb_bits - Bits(data[Len(data)])

\* The for loop of shl_bits with shifts lshift and rshift.
RECURSIVE Bigfloat_shl_bits_loop(_, _, _, _, _, _)
Bigfloat_shl_bits_loop(limb_bits, v, lshift, rshift, prev, index) ==
    IF index < Len(v)
    THEN Bigfloat_shl_bits_loop(
             limb_bits,
             [v EXCEPT ![index + 1] =
                 BitOr((v[index + 1] * Pow(2, lshift)) % Pow(2, limb_bits),
                       prev \div Pow(2, rshift))],
             lshift, rshift, v[index + 1], index + 1)
    ELSE [v |-> v, prev |-> prev]

\* shl_bits past its assertions: push the carry if it is not 0.
Bigfloat_shl_bits_carry(l, rshift) ==
    IF l.prev \div Pow(2, rshift) = 0 THEN Ok(l.v)
    ELSE IF Len(l.v) < SIZE THEN Ok(Append(l.v, l.prev \div Pow(2, rshift)))
    ELSE [st |-> "none", v |-> l.v]

\* Bigfloat::shl_bits: debug_assert!(n != 0); debug_assert!(n < LIMB_BITS);
Bigfloat_shl_bits(limb_bits, debug, data, n) ==
    IF debug /\ (n = 0 \/ n >= limb_bits) THEN Panic(data)
    ELSE Bigfloat_shl_bits_carry(
             Bigfloat_shl_bits_loop(limb_bits, data, n % limb_bits,
                                    (limb_bits - n) % limb_bits, 0, 0),
             (limb_bits - n) % limb_bits)

\* The shift that leaves wlz leading zeros, as byte_comp computes it:
\* den.leading_zeros().wrapping_sub(wlz) & (32 - 1)
byte_comp_nlz(limb_bits, radix, den) ==
    (Bigfloat_leading_zeros(limb_bits, den.data)
        - integral_binary_factor("radix", radix)) % NARROW_LIMB_BITS

\* den.shl_bits(nlz).unwrap(); den.exp -= nlz: the denominator after the
\* normalisation, st telling whether the step panicked.
byte_comp_den(limb_bits, debug, radix, den) ==
    [st |-> IF Bigfloat_shl_bits(limb_bits, debug, den.data,
                                 byte_comp_nlz(limb_bits, radix, den)).st = "ok"
            THEN "ok" ELSE "panic",
     data |-> Bigfloat_shl_bits(limb_bits, debug, den.data,
                                byte_comp_nlz(limb_bits, radix, den)).v,
     exp |-> den.exp - byte_comp_nlz(limb_bits, radix, den)]

\* shift.ceil_divmod(LIMB_BITS) of lexical-util, which is not part of the
\* sources at hand: the quotient rounded up and the remainder, which is
\* not positive.
ceil_divmod(x, y) == [q |-> (x + y - 1) \div y, r |-> x - ((x + y - 1) \div y) * y]

\* The alignment of the numerator with the normalized denominator d: the
\* status of the step and the shift handed to shl_bits, if any.  The
\* numerator is shifted by shl when it lies above the denominator; shl
\* calls shl_bits itself, and only for a remainder that is not 0.
byte_comp_num(limb_bits, debug, num, d) ==
    IF d.exp - num.exp <= 0 THEN [st |-> "ok", shifts |-> <<>>]
    ELSE [st |-> IF Bigfloat_shl_bits(
                        limb_bits, debug, num.data,
                        -ceil_divmod(d.exp - num.exp, limb_bits).r).st = "ok"
                 THEN "ok" ELSE "panic",
          shifts |-> <<-ceil_divmod(d.exp - num.exp, limb_bits).r>>]

\* The scaling of byte_comp: the denominator after its normalisation, the
\* shifts handed to shl_bits and the status of the whole.
byte_comp_scale(limb_bits, debug, radix, num, den, d) ==
    IF d.st # "ok"
    THEN [st |-> "panic", den_ok |-> FALSE, data |-> d.data, exp |-> d.exp,
          shifts |-> <<byte_comp_nlz(limb_bits, radix, den)>>]
    ELSE [st |-> byte_comp_num(limb_bits, debug, num, d).st, den_ok |-> TRUE,
          data |-> d.data, exp |-> d.exp,
          shifts |-> <<byte_comp_nlz(limb_bits, radix, den)>>
                         \o byte_comp_num(limb_bits, debug, num, d).shifts]

(***************************************************************************)
(* The digit limit of the slow path (limits.rs 929-973).  Some(n) is       *)
(* [st |-> "ok", out |-> n], None is [st |-> "none", out |-> 0].           *)
(***************************************************************************)
SomeDigits(n) == [st |-> "ok", out |-> n]

NoDigits == [st |-> "none", out |-> 0]

\* A table with an arm for every even radix: the fault of treating the
\* powers of two like the other even radixes.
max_digits_every_even(radix) == IF radix % 2 = 0 THEN SomeDigits(radix) ELSE NoDigits

f32_max_digits(radix) ==
    CASE radix = 6 -> SomeDigits(103)
      [] radix = 10 -> SomeDigits(114)
      [] radix = 12 -> SomeDigits(117)
      [] radix = 14 -> SomeDigits(119)
      [] radix = 18 -> SomeDigits(122)
      [] radix = 20 -> SomeDigits(123)
      [] radix = 22 -> SomeDigits(123)
      [] radix = 24 -> SomeDigits(124)
      [] radix = 26 -> SomeDigits(125)
      [] radix = 28 -> SomeDigits(125)
      [] radix = 30 -> SomeDigits(126)
      [] radix = 34 -> SomeDigits(127)
      [] radix = 36 -> SomeDigits(127)
      [] OTHER -> NoDigits

f64_max_digits(radix) ==
    CASE radix = 6 -> SomeDigits(682)
      [] radix = 10 -> SomeDigits(769)
      [] radix = 12 -> SomeDigits(792)
      [] radix = 14 -> SomeDigits(808)
      [] radix = 18 -> SomeDigits(832)
      [] radix = 20 -> SomeDigits(840)
      [] radix = 22 -> SomeDigits(848)
      [] radix = 24 -> SomeDigits(854)
      [] radix = 26 -> SomeDigits(859)
      [] radix = 28 -> SomeDigits(864)
      [] radix = 30 -> SomeDigits(868)
      [] radix = 34 -> SomeDigits(876)
      [] radix = 36 -> SomeDigits(879)
      [] OTHER -> NoDigits

(***************************************************************************)
(* Calls.  A call names the function and its arguments: two vectors x, y   *)
(* and two scalars n, m (unused arguments are <<>> and 0), the candidate   *)
(* float fp of negative_digit_comp, and the build the crate was compiled   *)
(* for.                                                                    *)
(***************************************************************************)
\* Longest vector of the exhaustive operand sets.
MaxLen == 2

\* Longest vector of the multiplication operand sets.
MaxMulLen == 4

\* Largest exponent passed to Bigint::pow.
MaxExp == 3

\* Largest radix exponent (in absolute value) of the digit comparison.
MaxDigitExp == 2

\* Candidate floats have binary exponents -MaxFpShift..0.
MaxFpShift == 4

\* Limb values the operands are built from: both ends of the range, the
\* top bit alone, and small values.
LimbSample == {0, 1, 2, LimbBase \div 2, LIMB_MAX - 1, LIMB_MAX}

LimbEnds == {0, 1, LimbBase \div 2, LIMB_MAX}

\* All vectors over limbs of length lo..hi.
VecsOver(limbs, lo, hi) == UNION {[1..n -> limbs] : n \in lo..hi}

NormVecs(limbs, hi) == {v \in VecsOver(limbs, 0, hi) : is_normalized(v)}

\* Vectors at or next to the capacity.
FullVecs ==
    {[i \in 1..SIZE |-> LIMB_MAX],
     [i \in 1..SIZE |-> IF i = SIZE THEN 1 ELSE 0],
     [i \in 1..SIZE |-> IF i = SIZE THEN LimbBase \div 2 ELSE 1],
     [i \in 1..(SIZE - 1) |-> LIMB_MAX],
     [i \in 1..(SIZE - 1) |-> IF i = SIZE - 1 THEN 1 ELSE 0]}

SmallVecs == NormVecs(LimbSample, MaxLen) \cup FullVecs

PairVecs == NormVecs(LimbEnds, MaxLen) \cup FullVecs

MulVecs == NormVecs({0, 1, LIMB_MAX}, MaxMulLen) \cup FullVecs

NoFp == [mant |-> 0, exp |-> 0]

Call(fn, x, y, n, m, build) ==
    [fn |-> fn, x |-> x, y |-> y, n |-> n, m |-> m, build |-> build, fp |-> NoFp,
     bytes |-> <<>>, debug |-> FALSE, exps |-> [den |-> 0, num |-> 0]]

SmallCalls ==
    {Call(fn, v, <<>>, y, 0, "decimal") :
        fn \in {"small_mul", "small_div"},
        v \in SmallVecs, y \in LimbSample}
    \cup {Call(fn, v, <<>>, y, start, "decimal") :
        fn \in {"small_add_from", "small_sub_from"},
        v \in SmallVecs, y \in LimbSample, start \in 0..1}

LargeCalls ==
    {Call(fn, v, w, 0, 0, "decimal") :
        fn \in {"large_add", "large_sub"}, v \in PairVecs, w \in PairVecs}

\* Numerators and denominators of large_quorem: short vectors over limbs
\* with few and with many leading zeros.
QuoremVecs ==
    NormVecs({0, 1, LimbBase \div 2 - 2, LimbBase \div 2, LIMB_MAX}, 2)
    \cup FullVecs

QuoremCalls ==
    {Call("large_quorem", v, w, 0, 0, "decimal") :
        v \in QuoremVecs, w \in QuoremVecs}

\* The radixes a build supports (split_radix and the limit tables agree on
\* them), among those whose odd factor fits a limb of the model.
Radixes(build) ==
    {r \in 2..36 :
        /\ r = 10 \/ (IsPow2(r) /\ FeaturePowerOfTwo(build)) \/ FeatureRadix(build)
        /\ split_radix("radix", r).odd <= LIMB_MAX}

\* The bases the slow path passes to Bigint::pow for radix r (slow.rs 126,
\* 191-200): r, r / 2 when r is even, and 2.
PowBases(build) ==
    UNION {{r, 2} \cup (IF r % 2 = 0 THEN {r \div 2} ELSE {}) : r \in Radixes(build)}

PowVecs == NormVecs({1, LIMB_MAX}, 2) \cup FullVecs

PowCalls ==
    UNION {{Call("Bigint_pow", v, <<>>, base, exp, build) :
               v \in PowVecs, base \in PowBases(build), exp \in 0..MaxExp} :
           build \in Builds}

MulCalls == {Call("large_mul", v, w, 0, 0, "decimal") : v \in MulVecs, w \in MulVecs}

ShlCalls ==
    {Call("shl", v, <<>>, n, 0, "decimal") :
        v \in SmallVecs, n \in 0..(2 * LIMB_BITS + 1)}

\* The radixes the digit comparison is run with.
DigitRadixes(build) == Radixes(build) \cap {2, 3, 6, 10, 12}

\* Big mantissas of the digit comparison: every value of one or two limbs.
Mantissas == NormVecs(0..LIMB_MAX, 2) \ {<<>>}

\* positive_digit_comp(bigmant = x, exponent = m) with radix n.
PositiveCalls ==
    UNION {{Call("positive_digit_comp", v, <<>>, radix, exp, build) :
               v \in Mantissas, radix \in DigitRadixes(build),
               exp \in 0..MaxDigitExp} :
           build \in Builds}

\* Candidate floats: the top bit of the mantissa is set.
Candidates ==
    {[mant |-> mant, exp |-> exp] :
        mant \in (LimbBase \div 2)..LIMB_MAX, exp \in (-MaxFpShift)..0}

\* negative_digit_comp(bigmant = x, fp, exponent = -m) with radix n.
NegativeCalls ==
    UNION {{[Call("negative_digit_comp", v, <<>>, radix, exp, build)
                EXCEPT !.fp = fp] :
               v \in NormVecs({1, 3, LIMB_MAX}, 2) \ {<<>>},
               radix \in DigitRadixes(build) \ {2},
               exp \in 1..MaxDigitExp, fp \in Candidates} :
           build \in Builds}

\* Vectors of limbs of limb_bits bits read by hi16, hi32 and hi64: every
\* short vector, and longer ones over the ends of the limb range.
HiVecs(limb_bits) ==
    (NormVecs(0..(Pow(2, limb_bits) - 1), MaxLen)
        \cup NormVecs({0, 1, Pow(2, limb_bits) - 1}, MaxMulLen)) \ {<<>>}

\* hi16, hi32, hi64 on x, a vector of limbs of n bits.
HiCalls ==
    UNION {{Call(fn, v, <<>>, limb_bits, 0, "decimal") :
               fn \in {"hi16", "hi32", "hi64"}, v \in HiVecs(limb_bits)} :
           limb_bits \in {U32_BITS, U64_BITS}}

\* The table lookups: a function of the limits and its radix n; m is the
\* field read from the pair an exponent limit returns.
TableCalls ==
    {Call(fn, <<>>, <<>>, radix, 0, "radix") :
        fn \in {"f32_max_digits", "f64_max_digits"}, radix \in 2..36}
    \cup {Call(fn, <<>>, <<>>, radix, 0, build) :
        fn \in {"u32_power_limit", "u64_power_limit", "f32_mantissa_limit",
                 "f64_mantissa_limit"},
        radix \in 2..36, build \in Builds}
    \cup {Call(fn, <<>>, <<>>, radix, field, build) :
        fn \in {"f32_exponent_limit", "f64_exponent_limit"},
        radix \in 2..36, field \in 1..2, build \in Builds}
    \cup {Call("split_radix", <<>>, <<>>, radix, 0, build) :
        radix \in 2..36, build \in Builds}

\* Largest exponent (in absolute value) of a Number given to binary and
\* slow_binary.
MaxBinExp == 20

\* Longest integer part slow_binary parses; the fraction is one digit
\* shorter.
MaxBinDigits == 4

\* binary: fp holds the mantissa and the exponent of the Number, n the
\* radix, x = <<lossy, many_digits>> as 0 or 1.
BinaryCalls ==
    {[Call("binary", <<lossy, many_digits>>, <<>>, radix, 0, "power-of-two")
         EXCEPT !.fp = [mant |-> mant, exp |-> exp]] :
        lossy \in 0..1, many_digits \in 0..1, radix \in {2, 4},
        mant \in 1..(Pow(2, U64_BITS) - 1), exp \in (-MaxBinExp)..MaxBinExp}

\* Digit strings of the radix: all of them for radix 2, those of the
\* digits 0 and radix - 1 otherwise.
BinDigits(radix, len) ==
    UNION {[1..l -> {0, radix - 1}] : l \in 0..(IF radix = 2 THEN len ELSE len - 1)}

\* slow_binary: x the integer digits, y the fraction digits, n the radix,
\* m the exponent.  The caller comes from binary, which returned neither
\* zero nor a float: some digit is not 0 and the shift is below the width
\* of the register.  The exponents are every eighth one.
SlowBinaryCalls ==
    UNION {{c \in {Call("slow_binary", integer, fraction, radix, exp, "power-of-two") :
                      integer \in BinDigits(radix, MaxBinDigits),
                      fraction \in BinDigits(radix, MaxBinDigits - 1),
                      exp \in {e \in (-MaxBinExp)..MaxBinExp : e % 8 = 0}} :
               LET p == checked_add_digits(radix, c.x \o c.y, 1, 0, FALSE, TRUE)
               IN  /\ p.mantissa # 0
                   /\ 1 - calculate_power2(radix, c.m, u64_leading_zeros(p.mantissa)) < U64_BITS} :
           radix \in {2, 4}}

\* Most digits in an input of compare_bytes.
MaxCmpDigits == 3

DECIMAL_POINT == 46

\* The exponent character, a byte that is no digit and no decimal point.
EXPONENT_BYTE == 101

DigitBytes(radix, len) ==
    UNION {[1..l -> ZERO_BYTE..(ZERO_BYTE + radix - 1)] : l \in 0..len}

\* Inputs: integer digits, maybe a decimal point and fraction digits, maybe
\* an exponent character with the digit of an exponent.
CompareInputs(radix) ==
    {integer \o point \o exponent :
        integer \in DigitBytes(radix, MaxCmpDigits - 1),
        point \in {<<>>} \cup {<<DECIMAL_POINT>> \o f : f \in DigitBytes(radix, 1)},
        exponent \in {<<>>, <<EXPONENT_BYTE, ZERO_BYTE + 1>>}}

\* Denominators as byte_comp leaves them: the top limb has
\* integral_binary_factor(radix) leading zero bits.
CompareDens == {<<3>>, <<1, 2>>}

\* compare_bytes(bytes, num = x, den = y) in radix n; the numerator is not
\* zero and below radix * den.
CompareCalls ==
    UNION {{[Call("compare_bytes", ToLimbs(k), den, 3, 0, "radix")
                EXCEPT !.bytes = bytes] :
               k \in {j \in 1..(3 * Value(den) - 1) : j < 9 \/ j % 11 = 0},
               bytes \in CompareInputs(3)} :
           den \in CompareDens}

\* Largest exponent (in absolute value) of a Number given to
\* scientific_exponent, and the most digits of its mantissa.
MaxSciExp == 2

MaxSciDigits == 9

\* Mantissas: 0, the small ones, and the powers of the radix with their
\* neighbours, below 2^30.
SciMantissas(radix) ==
    (0..12) \cup
    UNION {{Pow(radix, k) - 1, Pow(radix, k), Pow(radix, k) + 1, 2 * Pow(radix, k)} :
              k \in {j \in 1..MaxSciDigits : j <= PowerLimit(radix, Pow(2, 29))}}

\* scientific_exponent: fp holds the mantissa and the exponent of the
\* Number, n the radix.
SciCalls ==
    UNION {{[Call("scientific_exponent", <<>>, <<>>, radix, 0, "radix")
                EXCEPT !.fp = [mant |-> mant, exp |-> exp]] :
               mant \in SciMantissas(radix), exp \in (-MaxSciExp)..MaxSciExp} :
           radix \in 2..36}

\* The scaling of byte_comp: the radix in n, the width of the limbs in m,
\* the denominator in x and the numerator in y, their exponents in exps.
\* The denominators are every value up to MaxScaleDen, the ends of a limb
\* and of two narrow limbs; the exponents are those byte_comp starts from,
\* a power of the radix with exponent 0 under any numerator, or 1 with the
\* exponent of b+h negated.
MaxScaleDen == 40

MaxScaleExp == 18

RECURSIVE ToLimbsIn(_, _)
ToLimbsIn(limb_bits, n) ==
    IF n = 0 THEN <<>>
    ELSE <<n % Pow(2, limb_bits)>> \o ToLimbsIn(limb_bits, n \div Pow(2, limb_bits))

ScaleDens(limb_bits) ==
    {ToLimbsIn(limb_bits, d) :
        d \in 1..MaxScaleDen
               \cup {Pow(2, limb_bits - 1), Pow(2, limb_bits) - 1,
                     Pow(2, NARROW_LIMB_BITS), Pow(2, 2 * NARROW_LIMB_BITS) - 1}}

ScaleCall(radix, limb_bits, debug, den, den_exp, num_exp) ==
    [Call("byte_comp", den, <<1>>, radix, limb_bits, "radix")
        EXCEPT !.debug = debug, !.exps = [den |-> den_exp, num |-> num_exp]]

ScaleCalls ==
    UNION {{ScaleCall(radix, limb_bits, debug, den, 0, 0) :
               radix \in {r \in 3..35 : r % 2 = 1},
               debug \in BOOLEAN, den \in ScaleDens(limb_bits)} :
           limb_bits \in {NARROW_LIMB_BITS, WIDE_LIMB_BITS}}
    \cup {ScaleCall(radix, limb_bits, debug, ToLimbsIn(limb_bits, Pow(radix, k)),
                    0, e) :
             radix \in {3, 5, 9, 35}, limb_bits \in {NARROW_LIMB_BITS, WIDE_LIMB_BITS},
             debug \in BOOLEAN, k \in 0..2, e \in (-MaxScaleExp)..MaxScaleExp}
    \cup {ScaleCall(radix, limb_bits, debug, <<1>>, e, 0) :
             radix \in {3, 5, 9, 35}, limb_bits \in {NARROW_LIMB_BITS, WIDE_LIMB_BITS},
             debug \in BOOLEAN, e \in (-MaxScaleExp)..MaxScaleExp}

\* parse_mantissa(bytes, decimal point, max_digits = m) in radix n: up to
\* MaxParseDigits integer digits, maybe a decimal point and up to
\* MaxParseFraction fraction digits, maybe an exponent; the digits are the
\* least and the greatest of the radix, and one of them is not '0'.
\* max_digits is 1, less than the integer digits may be, or at least the
\* digits of any input.
MaxParseDigits == 3

MaxParseFraction == 2

ParseDigitBytes(radix, len) ==
    UNION {[1..l -> {ZERO_BYTE, ZERO_BYTE + radix - 1}] : l \in 0..len}

ParseSignificands(radix) ==
    {integer \o point :
        integer \in ParseDigitBytes(radix, MaxParseDigits),
        point \in {<<>>} \cup {<<DECIMAL_POINT>> \o f :
                                  f \in ParseDigitBytes(radix, MaxParseFraction)}}

ParseInputs(radix) ==
    {significand \o exponent :
        significand \in {input \in ParseSignificands(radix) :
                            \E i \in 1..Len(input) : input[i] = ZERO_BYTE + radix - 1},
        exponent \in {<<>>, <<EXPONENT_BYTE, ZERO_BYTE + 1>>}}

ParseCalls ==
    UNION {{[Call("parse_mantissa", <<>>, <<>>, radix, max_digits, "radix")
                EXCEPT !.bytes = bytes] :
               max_digits \in {1, MaxParseDigits - 1, MaxParseDigits + MaxParseFraction},
               bytes \in ParseInputs(radix)} :
           radix \in {2, 3, 10}}

\* What a call returned: status, the vector it left, the limb it returned;
\* for the digit comparison the rounded float, the ordering and b+h.
FloatRet(st, fp, ord, theor) ==
    [st |-> st, v |-> <<>>, out |-> 0, flag |-> FALSE, fp |-> fp, ord |-> ord,
     theor |-> theor, shifts |-> <<>>]

Ret(st, v, out) == [FloatRet(st, NoFp, "Equal", NoFp) EXCEPT !.v = v, !.out = out]

\* A returned pair (value, flag).
Pair(out, flag) == [Ret("ok", <<>>, out) EXCEPT !.flag = flag]

NoRet == Ret("pending", <<>>, 0)

Init ==
    /\ pc = "call"
    /\ \/ call \in SmallCalls
       \/ call \in LargeCalls
       \/ call \in QuoremCalls
       \/ call \in MulCalls
       \/ call \in ShlCalls
       \/ call \in PowCalls
       \/ call \in PositiveCalls
       \/ call \in NegativeCalls
       \/ call \in HiCalls
       \/ call \in TableCalls
       \/ call \in BinaryCalls
       \/ call \in SlowBinaryCalls
       \/ call \in CompareCalls
       \/ call \in SciCalls
       \/ call \in ScaleCalls
       \/ call \in ParseCalls
    /\ ret = NoRet

\* Run the call of function fn and store its result r.
Return(fn, r) ==
    /\ pc = "call"
    /\ call.fn = fn
    /\ pc' = "ret"
    /\ ret' = r
    /\ UNCHANGED call

SmallAddFrom ==
    Return("small_add_from", Ret("ok", small_add_from(call.x, call.n, call.m), 0))

SmallSubFrom ==
    Return("small_sub_from", Ret("ok", small_sub_from(call.x, call.n, call.m), 0))

SmallMul == Return("small_mul", Ret("ok", small_mul(call.x, call.n), 0))

SmallDiv ==
    Return("small_div", LET r == small_div(call.x, call.n) IN Ret(r.st, r.v, r.rem))

LargeAdd ==
    Return("large_add", LET r == large_add(call.x, call.y) IN Ret(r.st, r.v, 0))

LargeSub == Return("large_sub", Ret("ok", large_sub(call.x, call.y), 0))

\* ret.flag tells whether every call of karatsuba_mul kept its contract.
LargeMul ==
    Return("large_mul",
           [Ret(large_mul(call.x, call.y).st, large_mul(call.x, call.y).v, 0)
               EXCEPT !.flag = large_mul_safe(call.x, call.y)])

LargeQuorem ==
    Return("large_quorem", LET r == large_quorem(call.x, call.y) IN Ret(r.st, r.v, r.q))

Shl == Return("shl", LET r == shl(call.x, call.n) IN Ret(r.st, r.v, 0))

BigintPow ==
    Return("Bigint_pow",
           LET r == Bigint_pow(call.build, call.x, call.n, call.m)
           IN  Ret(r.st, r.v, 0))

PositiveDigitComp ==
    Return("positive_digit_comp",
           LET r == positive_digit_comp(call.build, call.n, call.x, call.m)
           IN  FloatRet(r.st, r.fp, "Equal", NoFp))

NegativeDigitComp ==
    Return("negative_digit_comp",
           LET r == negative_digit_comp(call.build, call.n, call.x, call.fp, -call.m)
           IN  FloatRet(r.st, r.fp, r.ord, r.theor))

\* What hi16, hi32 and hi64 return: the pair, and in st whether a call of
\* nonzero broke its precondition.
HiRet(h) ==
    [Pair(h.mant, h.trunc) EXCEPT
        !.st = IF "asserted" \in DOMAIN h /\ ~h.asserted THEN "assert" ELSE "ok"]

Hi16 ==
    Return("hi16", HiRet(StackVec_hi16(call.n, call.x)))

Hi32 ==
    Return("hi32", HiRet(StackVec_hi32(call.n, call.x)))

Hi64 ==
    Return("hi64", HiRet(StackVec_hi64(call.n, call.x)))

F32MaxDigits ==
    Return("f32_max_digits",
           Ret(f32_max_digits(call.n).st, <<>>, f32_max_digits(call.n).out))

F64MaxDigits ==
    Return("f64_max_digits",
           Ret(f64_max_digits(call.n).st, <<>>, f64_max_digits(call.n).out))

U32PowerLimit ==
    Return("u32_power_limit", Ret("ok", <<>>, u32_power_limit(call.build, call.n)))

U64PowerLimit ==
    Return("u64_power_limit", Ret("ok", <<>>, u64_power_limit_arms(call.build, call.n)))

F32ExponentLimit ==
    Return("f32_exponent_limit",
           Ret("ok", <<>>, f32_exponent_limit(call.build, call.n)[call.m]))

F32MantissaLimit ==
    Return("f32_mantissa_limit", Ret("ok", <<>>, f32_mantissa_limit(call.build, call.n)))

F64ExponentLimit ==
    Return("f64_exponent_limit",
           Ret("ok", <<>>, f64_exponent_limit(call.build, call.n)[call.m]))

F64MantissaLimit ==
    Return("f64_mantissa_limit", Ret("ok", <<>>, f64_mantissa_limit(call.build, call.n)))

Binary ==
    Return("binary",
           FloatRet("ok",
                    binary(call.n,
                           [mantissa |-> call.fp.mant, exponent |-> call.fp.exp,
                            many_digits |-> call.x[2] = 1],
                           call.x[1] = 1),
                    "Equal", NoFp))

SlowBinary ==
    Return("slow_binary",
           FloatRet("ok", slow_binary(call.n, call.x, call.y, call.m), "Equal", NoFp))

CompareBytes ==
    Return("compare_bytes",
           FloatRet("ok", NoFp,
                    compare_bytes(call.bytes, call.x, call.y, call.n, DECIMAL_POINT),
                    NoFp))

\* split_radix returns the pair (odd, shift), kept in ret.v.
SplitRadix ==
    Return("split_radix",
           Ret("ok", <<split_radix(call.build, call.n).odd,
                       split_radix(call.build, call.n).shift>>, 0))

ScientificExponent ==
    Return("scientific_exponent",
           Ret("ok", <<>>,
               scientific_exponent(call.n, [mantissa |-> call.fp.mant,
                                            exponent |-> call.fp.exp])))

\* The scaling of byte_comp: v and out are the denominator after its
\* normalisation, flag tells that the normalisation returned, shifts are
\* the bits handed to shl_bits.
ByteCompScaled(s) ==
    [Ret(s.st, s.data, s.exp) EXCEPT !.flag = s.den_ok, !.shifts = s.shifts]

ByteComp ==
    Return("byte_comp",
           ByteCompScaled(
               byte_comp_scale(
                   call.m, call.debug, call.n,
                   [data |-> call.y, exp |-> call.exps.num],
                   [data |-> call.x, exp |-> call.exps.den],
                   byte_comp_den(call.m, call.debug, call.n,
                                 [data |-> call.x, exp |-> call.exps.den]))))

\* parse_mantissa: v is the big integer, out the digits counted.
ParseMantissaRet(p) == Ret("ok", p.result, p.count)

ParseMantissa ==
    Return("parse_mantissa",
           ParseMantissaRet(parse_mantissa(call.n, call.bytes, DECIMAL_POINT, call.m)))

Next ==
    \/ SmallAddFrom
    \/ SmallSubFrom
    \/ SmallMul
    \/ SmallDiv
    \/ LargeAdd
    \/ LargeSub
    \/ LargeMul
    \/ LargeQuorem
    \/ Shl
    \/ BigintPow
    \/ PositiveDigitComp
    \/ NegativeDigitComp
    \/ Hi16
    \/ Hi32
    \/ Hi64
    \/ F32MaxDigits
    \/ F64MaxDigits
    \/ U32PowerLimit
    \/ U64PowerLimit
    \/ F32ExponentLimit
    \/ F32MantissaLimit
    \/ F64ExponentLimit
    \/ F64MantissaLimit
    \/ Binary
    \/ SlowBinary
    \/ CompareBytes
    \/ SplitRadix
    \/ ScientificExponent
    \/ ByteComp
    \/ ParseMantissa

Spec == Init /\ [][Next]_vars

(***************************************************************************)
(* A StackVec as an object (bigint.rs 270-457): ret.v is the vector, call  *)
(* the last method called on it and ret.st, ret.out what the method        *)
(* returned.  StackVec::new() leaves it empty.                             *)
(***************************************************************************)
\* Limbs pushed, copied in and used as fill value.
VecLimbs == {0, LIMB_MAX}

\* Slices handed to try_extend and try_from: up to one limb more than the
\* capacity.
Slices == {[i \in 1..n |-> l] : n \in 0..(SIZE + 1), l \in VecLimbs}

Some(ok) == IF ok THEN "ok" ELSE "none"

InitVec ==
    /\ pc = "vec"
    /\ call = Call("new", <<>>, <<>>, 0, 0, "decimal")
    /\ ret = Ret("ok", <<>>, 0)

\* Call the method `op` on the vector and store what it returned.
Method(op, r, out) ==
    /\ pc = "vec"
    /\ call' = op
    /\ ret' = Ret(Some(r.ok), r.v, out)
    /\ UNCHANGED pc

TryPush ==
    \E value \in VecLimbs :
        Method(Call("try_push", <<>>, <<>>, value, 0, "decimal"),
               try_push(ret.v, value), 0)

Pop == Method(Call("pop", <<>>, <<>>, 0, 0, "decimal"), pop(ret.v), pop(ret.v).out)

TryExtend ==
    \E slc \in Slices :
        Method(Call("try_extend", <<>>, slc, 0, 0, "decimal"),
               try_extend(ret.v, slc), 0)

\* try_from returns a new vector, or None: the vector at hand is kept then.
TryFrom ==
    \E slc \in Slices :
        Method(Call("try_from", <<>>, slc, 0, 0, "decimal"),
               [ok |-> try_from(slc).ok,
                v |-> IF try_from(slc).ok THEN try_from(slc).v ELSE ret.v], 0)

TryResize ==
    \E len \in 0..(SIZE + 1), value \in VecLimbs :
        Method(Call("try_resize", <<>>, <<>>, len, value, "decimal"),
               try_resize(ret.v, len, value), 0)

NextVec ==
    \/ TryPush
    \/ Pop
    \/ TryExtend
    \/ TryFrom
    \/ TryResize

SpecVec == InitVec /\ [][NextVec]_vars

(***************************************************************************)
(* Properties of the arithmetic primitives.                                *)
(***************************************************************************)
\* Capacity of the vector as a number: values below it fit SIZE limbs.
Capacity == Pow(LimbBase, SIZE)

Returned(fn) == pc = "ret" /\ call.fn = fn

\* C5: for every x and non-empty y with len(x) <= len(y) whose top limb has
\* at least integral_binary_factor(radix) leading zero bits, large_quorem
\* returns q and leaves r with q * y + r = x and 0 <= r < y.
C5_QuoremExact ==
    (/\ Returned("large_quorem")
     /\ call.y # <<>>
     /\ Len(call.x) <= Len(call.y)
     /\ \E radix \in 2..36 :
            /\ integral_binary_factor("radix", radix) \in 1..(LIMB_BITS - 1)
            /\ limb_leading_zeros(call.y[Len(call.y)])
                   >= integral_binary_factor("radix", radix))
    => /\ ret.st = "ok"
       /\ ret.out * Value(call.y) + Value(ret.v) = Value(call.x)
       /\ Value(ret.v) < Value(call.y)

\* C6: after each arithmetic primitive applied to normalized operands the
\* resulting vector is normalized (empty, or its top limb is nonzero).
C6_ResultNormalized ==
    (/\ pc = "ret"
     /\ call.fn \in {"small_add_from", "small_sub_from", "small_mul",
                     "small_div", "large_add", "large_sub", "large_mul",
                     "large_quorem", "shl"}
     /\ call.m = 0
     /\ is_normalized(call.x) /\ is_normalized(call.y)
     /\ ret.st = "ok")
    => is_normalized(ret.v)

\* C9: small_sub_from propagates the borrow upward from limb start: without
\* underflow the vector holds x - y * 2^(LIMB_BITS * start); when the borrow
\* is still pending after the top limb the vector becomes empty.
C9_SubBorrowEmpties ==
    (Returned("small_sub_from") /\ call.m <= Len(call.x))
    => IF Value(call.x) >= call.n * Pow(LimbBase, call.m)
       THEN Value(ret.v) = Value(call.x) - call.n * Pow(LimbBase, call.m)
       ELSE ret.v = <<>>

\* C10: for every normalized v and nonzero limb y, small_div(v, y) leaves
\* floor(v / y), normalized, and returns v mod y.
C10_SmallDivExact ==
    (Returned("small_div") /\ call.n # 0 /\ is_normalized(call.x))
    => /\ ret.st = "ok"
       /\ ret.v = ToLimbs(Value(call.x) \div call.n)
       /\ ret.out = Value(call.x) % call.n

\* C7: when the exact result of small_add_from, small_mul, large_add or
\* Bigint::pow needs more limbs than the capacity, the operation does not
\* return normally: it panics or reports the failure.
C7_OverflowFailsLoudly ==
    /\ (/\ Returned("small_add_from")
        /\ call.m <= Len(call.x)
        /\ Value(call.x) + call.n * Pow(LimbBase, call.m) >= Capacity)
       => ret.st # "ok"
    /\ (/\ Returned("small_mul")
        /\ call.n # 0
        /\ Value(call.x) >= (Capacity + call.n - 1) \div call.n)
       => ret.st # "ok"
    /\ (Returned("large_add") /\ Value(call.x) + Value(call.y) >= Capacity)
       => ret.st # "ok"
    /\ (/\ Returned("Bigint_pow")
        /\ Value(call.x) >= (Capacity + Pow(call.n, call.m) - 1) \div Pow(call.n, call.m))
       => ret.st # "ok"

\* C3: in every build, for every base b the slow path passes to Bigint::pow
\* and every exponent e whose result fits the capacity, Bigint::pow(b, e)
\* leaves the previous value multiplied by exactly b^e.
C3_PowExact ==
    (/\ Returned("Bigint_pow")
     /\ Value(call.x) < (Capacity + Pow(call.n, call.m) - 1) \div Pow(call.n, call.m))
    => /\ ret.st = "ok"
       /\ ret.v = ToLimbs(Value(call.x) * Pow(call.n, call.m))

\* Grade-school long multiplication on limb sequences of any length: the
\* reference product of C8.
RECURSIVE RefAdd(_, _, _)
RefAdd(u, w, carry) ==
    IF u = <<>> /\ w = <<>>
    THEN IF carry = 0 THEN <<>> ELSE <<carry>>
    ELSE LET ui == IF u = <<>> THEN 0 ELSE Head(u)
             wi == IF w = <<>> THEN 0 ELSE Head(w)
             t == ui + wi + carry
         IN  <<t % LimbBase>>
             \o RefAdd(IF u = <<>> THEN u ELSE Tail(u),
                       IF w = <<>> THEN w ELSE Tail(w), t \div LimbBase)

RECURSIVE RefMulLimb(_, _, _)
RefMulLimb(u, y, carry) ==
    IF u = <<>>
    THEN IF carry = 0 THEN <<>> ELSE <<carry>>
    ELSE LET t == Head(u) * y + carry
         IN  <<t % LimbBase>> \o RefMulLimb(Tail(u), y, t \div LimbBase)

RECURSIVE RefTrim(_)
RefTrim(u) ==
    IF u # <<>> /\ u[Len(u)] = 0 THEN RefTrim(SubSeq(u, 1, Len(u) - 1)) ELSE u

RECURSIVE RefMul(_, _)
RefMul(u, w) ==
    IF w = <<>>
    THEN <<>>
    ELSE RefTrim(RefAdd(RefMulLimb(u, Head(w), 0), <<0>> \o RefMul(u, Tail(w)), 0))

\* C4: a call of large_mul runs to completion (returns or panics) for
\* operands of every length from 0 to the capacity.
C4_MulTerminates == Returned("large_mul") => ret.st # "hang"

\* C8: for all normalized v and w whose product fits the capacity,
\* large_mul(v, w) leaves the exact product, limb for limb that of
\* grade-school multiplication, whichever path is taken.
C8_MulExact ==
    (/\ Returned("large_mul")
     /\ is_normalized(call.x) /\ is_normalized(call.y)
     /\ Len(RefMul(call.x, call.y)) <= SIZE)
    => /\ ret.st = "ok"
       /\ ret.v = RefMul(call.x, call.y)

\* The float nearest to the integer n > 0, ties to even, as the rounder
\* returns it: mantissa without the hidden bit, biased exponent.
NearestFloat(n) ==
    LET precision == MANTISSA_SIZE + 1
        drop == Max(Bits(n) - precision, 0)
        kept == IF drop = 0 THEN n * Pow(2, precision - Bits(n))
                            ELSE n \div Pow(2, drop)
        rest == n % Pow(2, drop)
        up == drop > 0
              /\ (2 * rest > Pow(2, drop)
                  \/ (2 * rest = Pow(2, drop) /\ kept % 2 = 1))
        rounded == IF up THEN kept + 1 ELSE kept
        carry == rounded = Pow(2, precision)
        exp == Bits(n) - 1 + IEEE_BIAS + (IF carry THEN 1 ELSE 0)
    IN  IF exp >= INFINITE_POWER
        THEN [mant |-> 0, exp |-> INFINITE_POWER]
        ELSE [mant |-> (IF carry THEN rounded \div 2 ELSE rounded) % HIDDEN_BIT_MASK,
              exp |-> exp]

\* C1: for every big mantissa m > 0 and exponent e >= 0 whose product fits
\* the capacity, positive_digit_comp returns the float nearest to
\* m * radix^e, ties to even.
C1_PositiveNearest ==
    (/\ Returned("positive_digit_comp")
     /\ Value(call.x) > 0
     /\ Value(call.x) * Pow(call.n, call.m) < Capacity)
    => /\ ret.st = "ok"
       /\ ret.fp = NearestFloat(Value(call.x) * Pow(call.n, call.m))

\* The ordering of two integers.
Ordering(l, r) == IF l < r THEN "Less" ELSE IF l = r THEN "Equal" ELSE "Greater"

\* C2: for every even radix the build supports, negative_digit_comp
\* computes the ordering of real_digits * radix^real_exp against
\* b+h = theor.mant * 2^theor.exp (both sides scaled to integers here).
C2_NegativeOrdering ==
    (Returned("negative_digit_comp") /\ call.n % 2 = 0)
    => /\ ret.st = "ok"
       /\ ret.ord = Ordering(Value(call.x) * Pow(2, Max(-ret.theor.exp, 0)),
                             ret.theor.mant * Pow(call.n, call.m)
                                 * Pow(2, Max(ret.theor.exp, 0)))

\* C11: for all normalized v and w, large_sub(v, w) leaves v - w,
\* normalized, when v >= w, and leaves v empty when v < w.
C11_LargeSubExact ==
    (Returned("large_sub") /\ is_normalized(call.x) /\ is_normalized(call.y))
    => IF Value(call.x) >= Value(call.y)
       THEN ret.v = ToLimbs(Value(call.x) - Value(call.y))
       ELSE ret.v = <<>>

\* A subtraction whose borrow travels past the limbs of w.
C11_Witness ==
    /\ Returned("large_sub")
    /\ Len(call.x) > Len(call.y)
    /\ call.y # <<>>
    /\ call.x[1] < call.y[1]
    /\ ret.v = ToLimbs(Value(call.x) - Value(call.y))
    /\ ret.v # <<>>

\* The value of a vector of limbs of limb_bits bits.
RECURSIVE ValueIn(_, _)
ValueIn(limb_bits, v) ==
    IF v = <<>> THEN 0 ELSE Head(v) + Pow(2, limb_bits) * ValueIn(limb_bits, Tail(v))

\* The top `width` bits of n > 0, left-aligned, and whether a bit below them
\* is set.
HighBits(n, width) ==
    IF Bits(n) >= width
    THEN [mant |-> n \div Pow(2, Bits(n) - width),
          trunc |-> n % Pow(2, Bits(n) - width) # 0]
    ELSE [mant |-> n * Pow(2, width - Bits(n)), trunc |-> FALSE]

\* The width of the result of hi16, hi32, hi64.
HiWidth(fn) ==
    CASE fn = "hi16" -> U16_BITS [] fn = "hi32" -> U32_BITS [] OTHER -> U64_BITS

\* C12: for every normalized non-empty vector, with 32-bit and 64-bit limbs,
\* hi16, hi32 and hi64 return the top 16/32/64 bits left-aligned, and
\* truncated is true exactly when a bit below the returned bits is nonzero.
C12_HighBits ==
    (pc = "ret" /\ call.fn \in {"hi16", "hi32", "hi64"})
    => /\ ret.out = HighBits(ValueIn(call.n, call.x), HiWidth(call.fn)).mant
       /\ ret.flag = HighBits(ValueIn(call.n, call.x), HiWidth(call.fn)).trunc

\* C13: for every normalized v and every k with
\* 0 <= k <= capacity * LIMB_BITS - bit_length(v), shl(v, k) succeeds and
\* leaves v * 2^k, from which a right shift by k bits recovers v.
C13_ShlExact ==
    (/\ Returned("shl")
     /\ is_normalized(call.x)
     /\ call.n <= SIZE * LIMB_BITS - bit_length(call.x))
    => /\ ret.st = "ok"
       /\ ret.v = ToLimbs(Value(call.x) * Pow(2, call.n))
       /\ Value(ret.v) \div Pow(2, call.n) = Value(call.x)

\* A shift by whole limbs and by bits whose carry takes a new limb.
C13_Witness ==
    /\ Returned("shl")
    /\ is_normalized(call.x)
    /\ call.n <= SIZE * LIMB_BITS - bit_length(call.x)
    /\ call.n % LIMB_BITS # 0
    /\ call.n > LIMB_BITS
    /\ ret.st = "ok"
    /\ Len(ret.v) > Len(call.x) + call.n \div LIMB_BITS

\* The vector a method must leave and what it must return, from the vector
\* v it was called on: op is the call, r the result.
VecStepOk(v, op, r) ==
    CASE op.fn = "try_push" ->
            IF Len(v) >= SIZE
            THEN r.st = "none" /\ r.v = v
            ELSE r.st = "ok" /\ r.v = v \o <<op.n>>
      [] op.fn = "pop" ->
            IF Len(v) = 0
            THEN r.st = "none" /\ r.v = v
            ELSE r.st = "ok" /\ r.v \o <<r.out>> = v
      [] op.fn = "try_extend" ->
            IF Len(op.y) > SIZE - Len(v)
            THEN r.st = "none" /\ r.v = v
            ELSE r.st = "ok" /\ r.v = v \o op.y
      [] op.fn = "try_from" ->
            IF Len(op.y) > SIZE
            THEN r.st = "none" /\ r.v = v
            ELSE r.st = "ok" /\ r.v = op.y
      [] op.fn = "try_resize" ->
            IF op.n > SIZE
            THEN r.st = "none" /\ r.v = v
            ELSE /\ r.st = "ok"
                 /\ Len(r.v) = op.n
                 /\ \A i \in 1..op.n : r.v[i] = IF i <= Len(v) THEN v[i] ELSE op.m
      [] OTHER -> FALSE

\* C14: try_push on a full vector, try_extend / try_from with a slice longer
\* than the remaining capacity and try_resize with len > capacity return
\* failure and leave the vector unchanged; in every other case they
\* succeed; after any sequence of these operations and pop the length stays
\* within 0..capacity.
C14_StackVecBounded ==
    [][pc = "vec" => /\ VecStepOk(ret.v, call', ret')
                     /\ Len(ret'.v) \in 0..SIZE]_vars

\* A try_push refused by a full vector.
C14_Witness ==
    /\ pc = "vec"
    /\ call.fn = "try_push"
    /\ ret.st = "none"
    /\ Len(ret.v) = SIZE

\* C15 as stated: for f32 and f64, max_digits(radix) is Some for the powers
\* of two and every other even radix in 2..=36 and None for every odd radix.
C15_MaxDigitsEveryEven ==
    (pc = "ret" /\ call.fn \in {"f32_max_digits", "f64_max_digits"})
    => (ret.st = "ok" <=> call.n % 2 = 0)

\* C15 amended: max_digits(radix) is Some exactly for the even radixes that
\* are not powers of two; it is None for the odd radixes and for the powers
\* of two, which never reach the digit comparison.
C15_MaxDigitsEvenNotPow2 ==
    (pc = "ret" /\ call.fn \in {"f32_max_digits", "f64_max_digits"})
    => /\ ret.st = "ok" <=> (call.n % 2 = 0 /\ ~IsPow2(call.n))
       /\ ret.st = "ok" => ret.out > 0
       /\ ret.st # "ok" => ret.st = "none"

\* The lookup of a power of two.
C15_Witness ==
    /\ Returned("f64_max_digits")
    /\ IsPow2(call.n)
    /\ ret.st = "none"

(***************************************************************************)
(* Properties of the tables.  Powers that exceed the integers of the       *)
(* checker are computed on words of 16 bits, least significant first.      *)
(***************************************************************************)
WordBase == Pow(2, 16)

\* u * y + carry on words, for a small y.
RECURSIVE MulWords(_, _, _)
MulWords(u, y, carry) ==
    IF u = <<>>
    THEN IF carry = 0 THEN <<>> ELSE <<carry>>
    ELSE <<(Head(u) * y + carry) % WordBase>>
         \o MulWords(Tail(u), y, (Head(u) * y + carry) \div WordBase)

\* The words of radix^k.
RECURSIVE PowWords(_, _)
PowWords(radix, k) == IF k = 0 THEN <<1>> ELSE MulWords(PowWords(radix, k - 1), radix, 0)

\* radix^k <= 2^bits - 1, for bits a multiple of 16.
FitsBits(radix, k, bits) == 16 * Len(PowWords(radix, k)) <= bits

\* C16: with all radix features enabled, for every radix in 2..=36
\* u32_power_limit(radix) and u64_power_limit(radix) are the largest k with
\* radix^k <= 2^32 - 1 and radix^k <= 2^64 - 1.
C16_PowerLimitLargest ==
    /\ (Returned("u32_power_limit") /\ call.build = "radix")
       => FitsBits(call.n, ret.out, 32) /\ ~FitsBits(call.n, ret.out + 1, 32)
    /\ (Returned("u64_power_limit") /\ call.build = "radix")
       => FitsBits(call.n, ret.out, 64) /\ ~FitsBits(call.n, ret.out + 1, 64)

\* The limit of a radix whose power exceeds the integers of a u32.
C16_Witness ==
    /\ Returned("u64_power_limit")
    /\ call.build = "radix"
    /\ call.n = 36
    /\ ret.out > 6

\* a <= b on words.
RECURSIVE WordsLeq(_, _)
WordsLeq(a, c) ==
    IF Len(a) # Len(c) THEN Len(a) < Len(c)
    ELSE IF a = <<>> THEN TRUE
    ELSE IF a[Len(a)] # c[Len(c)] THEN a[Len(a)] < c[Len(c)]
    ELSE WordsLeq(SubSeq(a, 1, Len(a) - 1), SubSeq(c, 1, Len(c) - 1))

\* k is the largest integer with base^k <= 2^p.
LargestPower(base, k, p) ==
    /\ k >= 0
    /\ WordsLeq(PowWords(base, k), PowWords(2, p))
    /\ ~WordsLeq(PowWords(base, k + 1), PowWords(2, p))

\* n with all its factors of 2 removed.
RECURSIVE OddPart(_)
OddPart(n) == IF n % 2 = 0 THEN OddPart(n \div 2) ELSE n

\* The exponent limit (min, max) of a radix for a float of precision p,
\* denormal exponent -denormal and largest exponent max_exp.
ExponentLimitOk(radix, field, value, p, denormal, max_exp) ==
    IF IsPow2(radix)
    THEN value = IF field = 1 THEN -(denormal \div (Bits(radix) - 1))
                              ELSE max_exp \div (Bits(radix) - 1)
    ELSE LargestPower(OddPart(radix), IF field = 1 THEN -value ELSE value, p)

BinaryNorm == call.fp.mant * Pow(2, u64_leading_zeros(call.fp.mant))

BinaryPower2 ==
    calculate_power2(call.n, call.fp.exp, u64_leading_zeros(call.fp.mant))

\* The mantissa bits kept at the target precision and the bits below them.
BinaryKept == BinaryNorm \div Pow(2, calculate_shift(BinaryPower2))

BinaryDropped == BinaryNorm % Pow(2, calculate_shift(BinaryPower2))

BinaryHalf == Pow(2, calculate_shift(BinaryPower2) - 1)

\* The stored mantissa of a kept mantissa after rounding: a carry out of
\* the hidden bit halves it, the hidden bit is removed.
StoredMantissa(kept) ==
    (IF kept >= CARRY_MASK THEN kept \div 2 ELSE kept) % HIDDEN_BIT_MASK

\* C18: binary() returns the unresolved marker (exponent biased by
\* INVALID_FP, mantissa left normalized) if and only if lossy is false, the
\* kept mantissa is even, the bits below the precision are exactly the
\* halfway pattern and the number has many digits; in every other case
\* that is not the zero of an underflow it rounds up iff the dropped bits
\* are above halfway, or halfway with an odd kept mantissa.
C18_BinaryUnresolved ==
    (Returned("binary") /\ 1 - BinaryPower2 < U64_BITS) =>
        LET hard == /\ call.x[1] = 0
                    /\ BinaryKept % 2 = 0
                    /\ BinaryDropped = BinaryHalf
                    /\ call.x[2] = 1
            up == \/ BinaryDropped > BinaryHalf
                  \/ BinaryDropped = BinaryHalf /\ BinaryKept % 2 = 1
        IN  /\ ret.fp.exp < 0 <=> hard
            /\ hard => ret.fp = [mant |-> BinaryNorm, exp |-> BinaryPower2 + INVALID_FP]
            /\ ~hard => \/ ret.fp.exp = INFINITE_POWER
                        \/ ret.fp.mant = StoredMantissa(BinaryKept + BoolToLimb(up))

\* binary() returned the unresolved marker for a halfway mantissa of a
\* number with many digits.
C18_Witness ==
    /\ Returned("binary")
    /\ ret.fp.exp = BinaryPower2 + INVALID_FP
    /\ BinaryDropped = BinaryHalf
    /\ call.x = <<0, 1>>

\* binary() rounded a halfway mantissa with an odd kept part up.
C18_WitnessRoundUp ==
    /\ Returned("binary")
    /\ BinaryDropped = BinaryHalf
    /\ BinaryKept % 2 = 1
    /\ ret.fp.exp \in 1..(INFINITE_POWER - 1)
    /\ ret.fp.mant = StoredMantissa(BinaryKept + 1)


(***************************************************************************)
(* The floats binary() and slow_binary() return.                           *)
(***************************************************************************)
\* The float of a rounded mantissa `kept` whose last bit has the biased
\* exponent `power2`, as IEEE 754 stores it.
RECURSIVE Ieee(_, _)
Ieee(kept, power2) ==
    IF kept >= CARRY_MASK THEN Ieee(kept \div 2, power2 + 1)
    ELSE IF power2 >= INFINITE_POWER THEN [mant |-> 0, exp |-> INFINITE_POWER]
    ELSE IF kept < HIDDEN_BIT_MASK THEN [mant |-> kept, exp |-> 0]
    ELSE [mant |-> kept - HIDDEN_BIT_MASK, exp |-> power2]

\* The mantissa slow_binary parsed, its normalized form and its exponent.
SlowParsed == checked_add_digits(call.n, call.x \o call.y, 1, 0, FALSE, TRUE).mantissa

SlowPower2 == calculate_power2(call.n, call.m, u64_leading_zeros(SlowParsed))

SlowKept ==
    (SlowParsed * Pow(2, u64_leading_zeros(SlowParsed)))
        \div Pow(2, calculate_shift(SlowPower2))

\* C19: every resolved result of binary() and slow_binary() carries a
\* valid biased exponent: mantissa 0 and INFINITE_POWER exactly when the
\* exponent after carry reaches INFINITE_POWER, exponent 0 when the result
\* is subnormal, and otherwise an exponent strictly between 0 and
\* INFINITE_POWER with the hidden bit removed; a carry out of the hidden
\* bit adds one to the exponent.  The result is the float of the kept
\* mantissa rounded down or up.
C19_ValidBiasedExponent ==
    /\ (Returned("binary") /\ ret.fp.exp >= 0) =>
           \/ 1 - BinaryPower2 >= U64_BITS /\ ret.fp = [mant |-> 0, exp |-> 0]
           \/ \E up \in 0..1 :
                  ret.fp = Ieee(BinaryKept + up,
                                BinaryPower2 + calculate_shift(BinaryPower2))
    /\ Returned("slow_binary") =>
           \E up \in 0..1 :
               ret.fp = Ieee(SlowKept + up, SlowPower2 + calculate_shift(SlowPower2))

\* C19 for the results that are not subnormal.
C19_ValidUnlessSubnormal ==
    /\ (Returned("binary") /\ ret.fp.exp >= 0
            /\ BinaryPower2 + calculate_shift(BinaryPower2) > 1) =>
           \E up \in 0..1 :
               ret.fp = Ieee(BinaryKept + up,
                             BinaryPower2 + calculate_shift(BinaryPower2))
    /\ (Returned("slow_binary") /\ SlowPower2 + calculate_shift(SlowPower2) > 1) =>
           \E up \in 0..1 :
               ret.fp = Ieee(SlowKept + up, SlowPower2 + calculate_shift(SlowPower2))


(***************************************************************************)
(* compare_bytes against the digits of num / den.                          *)
(***************************************************************************)
\* The digits of the input as numbers: the bytes before the exponent
\* character without the decimal point ...
RECURSIVE InputDigits(_)
InputDigits(bytes) ==
    IF bytes = <<>> \/ Head(bytes) = EXPONENT_BYTE THEN <<>>
    ELSE IF Head(bytes) = DECIMAL_POINT THEN InputDigits(Tail(bytes))
    ELSE <<Head(bytes) - ZERO_BYTE>> \o InputDigits(Tail(bytes))

\* ... and without leading zeros.
RECURSIVE TrimZeros(_)
TrimZeros(digits) ==
    IF digits # <<>> /\ Head(digits) = 0 THEN TrimZeros(Tail(digits)) ELSE digits

\* The ordering of the digits against the digits of the ratio num / den,
\* both numbers: the next digit is the whole part of the ratio, and the
\* ratio goes on as radix times the rest.
RECURSIVE DigitOrdering(_, _, _, _)
DigitOrdering(digits, num, den, radix) ==
    IF num = 0
    THEN IF \E i \in 1..Len(digits) : digits[i] # 0 THEN "Greater" ELSE "Equal"
    ELSE IF digits = <<>> THEN "Less"
    ELSE IF Head(digits) < num \div den THEN "Less"
    ELSE IF Head(digits) > num \div den THEN "Greater"
    ELSE DigitOrdering(Tail(digits), (num % den) * radix, den, radix)

\* C20: compare_bytes walks the input digits against the digits quorem
\* generates from num and den: Less or Greater at the first digit that
\* differs, Less if the input digits end (end of input or exponent
\* character) while num is not zero, and once num is zero Greater if a
\* remaining input digit is not zero and Equal otherwise.
C20_CompareBytesOrdering ==
    Returned("compare_bytes") =>
        ret.ord = DigitOrdering(TrimZeros(InputDigits(call.bytes)),
                                Value(call.x), Value(call.y), call.n)

\* compare_bytes answered Equal after the numerator reached zero past the
\* decimal point, with an exponent following.
C20_Witness ==
    /\ Returned("compare_bytes")
    /\ ret.ord = "Equal"
    /\ \E i \in 2..Len(call.bytes) :
           /\ call.bytes[i - 1] = DECIMAL_POINT
           /\ call.bytes[i] # ZERO_BYTE
    /\ call.bytes[Len(call.bytes) - 1] = EXPONENT_BYTE

C20_WitnessLess == Returned("compare_bytes") /\ ret.ord = "Less" /\ Len(call.bytes) > 2

C20_WitnessGreater ==
    /\ Returned("compare_bytes")
    /\ ret.ord = "Greater"
    /\ Value(call.x) % Value(call.y) = 0
    /\ Len(TrimZeros(InputDigits(call.bytes))) > 1


(***************************************************************************)
(* split_radix.                                                            *)
(***************************************************************************)
\* The factor an odd part stands for: 0 is reported for the factor 1.
OddFactor(odd) == IF odd = 0 THEN 1 ELSE odd

\* C25: with all features enabled, for every radix in 2..36 split_radix
\* returns (odd, shift) where odd is an odd number, reported as 0 when the
\* radix is a power of two, and odd * 2^shift is the radix.
C25_SplitRadixOdd ==
    (Returned("split_radix") /\ call.build = "radix") =>
        /\ OddFactor(ret.v[1]) % 2 = 1
        /\ ret.v[1] = 0 <=> IsPow2(call.n)
        /\ OddFactor(ret.v[1]) * Pow(2, ret.v[2]) = call.n

\* C25 without the parity of the odd part: the product is the radix.
C25_SplitRadixProduct ==
    (Returned("split_radix") /\ call.build = "radix") =>
        /\ ret.v[1] = 0 <=> IsPow2(call.n)
        /\ OddFactor(ret.v[1]) * Pow(2, ret.v[2]) = call.n


(***************************************************************************)
(* The vector a failed shift leaves.                                       *)
(***************************************************************************)
\* C29: when shl_bits, shl_limbs or shl returns failure because the
\* shifted value does not fit the capacity, the length and the limbs of
\* the vector are the same as before the call.
C29_ShlFailureUnchanged ==
    (Returned("shl") /\ ret.st = "none") => ret.v = call.x

\* C29 for the shifts by whole limbs, which only shl_limbs carries out.
C29_ShlLimbsFailureUnchanged ==
    (Returned("shl") /\ ret.st = "none" /\ call.n % LIMB_BITS = 0) => ret.v = call.x


(***************************************************************************)
(* The calls of nonzero made by hi16, hi32 and hi64.                       *)
(***************************************************************************)
\* C28: every call of nonzero(x, rindex) made by hi16, hi32 and hi64
\* satisfies rindex < x.len(), for every length of the vector that reaches
\* the call, the lengths 2 of the two-limb extractors and 3 of the
\* three-limb extractor among them.
C28_NonzeroPrecondition ==
    (Returned("hi16") \/ Returned("hi32") \/ Returned("hi64")) => ret.st = "ok"

\* C28 for the vectors with a limb below the limbs the extractor reads.
C28_NonzeroWithLimbsBelow ==
    /\ (Returned("hi16") \/ Returned("hi32")) /\ Len(call.x) # 2 => ret.st = "ok"
    /\ Returned("hi64") /\ Len(call.x) # (IF call.n = U32_BITS THEN 3 ELSE 2)
           => ret.st = "ok"

\* nonzero is called with rindex = x.len() by exactly these calls.
C28_NonzeroAtLength ==
    /\ (Returned("hi16") \/ Returned("hi32")) /\ Len(call.x) = 2 => ret.st = "assert"
    /\ Returned("hi64") /\ call.n = U32_BITS /\ Len(call.x) = 3 => ret.st = "assert"
    /\ Returned("hi64") /\ call.n = U64_BITS /\ Len(call.x) = 2 => ret.st = "ok"


(***************************************************************************)
(* The operands of karatsuba_mul.                                          *)
(***************************************************************************)
\* C30: at every call of karatsuba_mul, those from large_mul, the
\* recursive ones of karatsuba_mul (low halves, sums, high halves) and
\* those of karatsuba_uneven_mul (each chunk of y), the first argument is
\* no longer than the second.
C30_KaratsubaOperandOrder == Returned("large_mul") => ret.flag

\* C30 for the operands no longer than KARATSUBA_CUTOFF, which large_mul
\* orders itself and karatsuba_mul hands to long_mul.
C30_OrderedBelowCutoff ==
    (Returned("large_mul") /\ Len(call.x) <= KARATSUBA_CUTOFF
        /\ Len(call.y) <= KARATSUBA_CUTOFF) => ret.flag


\* A call of large_mul that broke the contract and returned the product.
C30_BrokenAndReturned ==
    /\ Returned("large_mul")
    /\ ~ret.flag
    /\ ret.st = "ok"
    /\ ret.v = RefMul(call.x, call.y)


(***************************************************************************)
(* scientific_exponent.                                                    *)
(***************************************************************************)
\* The number of digits of n >= 1 in the radix: the largest d with
\* radix^(d - 1) <= n.
RECURSIVE RadixDigits(_, _)
RadixDigits(n, radix) == IF n < radix THEN 1 ELSE 1 + RadixDigits(n \div radix, radix)

\* C24: for every radix in 2..36 and every Number with mantissa >= 1,
\* scientific_exponent returns num.exponent + (d - 1), d being the number
\* of digits of the mantissa in the radix; it returns num.exponent when
\* the mantissa is 0.
C24_ScientificExponent ==
    Returned("scientific_exponent") =>
        /\ call.fp.mant >= 1 =>
               /\ ret.out = call.fp.exp + RadixDigits(call.fp.mant, call.n) - 1
               /\ Pow(call.n, ret.out - call.fp.exp) <= call.fp.mant
        /\ call.fp.mant = 0 => ret.out = call.fp.exp

\* scientific_exponent ran each of its three loops: a mantissa of 8 digits
\* in radix 3.
C24_Witness ==
    /\ Returned("scientific_exponent")
    /\ call.n = 3
    /\ RadixDigits(call.fp.mant, 3) = 8
    /\ ret.out = call.fp.exp + 7


(***************************************************************************)
(* The digits slow_binary parses.                                          *)
(***************************************************************************)
\* The digits of the call, integer then fraction, and the number the first
\* k of them spell.
SlowDigits == call.x \o call.y

RECURSIVE Spelled(_, _, _)
Spelled(digits, k, radix) ==
    IF k = 0 THEN 0 ELSE Spelled(digits, k - 1, radix) * radix + digits[k]

\* The digits before the first one that does not fit the u64: all of them
\* when every digit fits.
Fitting ==
    CHOOSE k \in 0..Len(SlowDigits) :
        /\ Spelled(SlowDigits, k, call.n) < Pow(2, U64_BITS)
        /\ k < Len(SlowDigits) => Spelled(SlowDigits, k + 1, call.n) >= Pow(2, U64_BITS)

\* C26: in slow_binary, once a digit fails to fit the u64 no later digit
\* changes the mantissa, whatever the digits that follow, and the round-up
\* bit added after the shift is 1 if and only if a digit from the first
\* one that does not fit onward is not 0.
C26_SlowBinarySticky ==
    Returned("slow_binary") =>
        /\ SlowParsed = Spelled(SlowDigits, Fitting, call.n)
        /\ ret.fp = shift_and_round(
                        SlowParsed * Pow(2, u64_leading_zeros(SlowParsed)), SlowPower2,
                        \E i \in (Fitting + 1)..Len(SlowDigits) : SlowDigits[i] # 0)

\* slow_binary rounded up for a digit after the first one that did not
\* fit, which was 0 itself.
C26_Witness ==
    /\ Returned("slow_binary")
    /\ Fitting + 2 <= Len(SlowDigits)
    /\ SlowDigits[Fitting + 1] = 0
    /\ SlowDigits[Len(SlowDigits)] # 0
    /\ ret.fp # shift_and_round(SlowParsed * Pow(2, u64_leading_zeros(SlowParsed)),
                                SlowPower2, FALSE)

\* slow_binary rounded up for the first digit that did not fit alone.
C26_WitnessFirst ==
    /\ Returned("slow_binary")
    /\ Fitting + 1 = Len(SlowDigits)
    /\ ret.fp # shift_and_round(SlowParsed * Pow(2, u64_leading_zeros(SlowParsed)),
                                SlowPower2, FALSE)


\* The denominator byte_comp was called with, and the bits its
\* normalisation moved it by.
ScaleDen == [data |-> call.x, exp |-> call.exps.den]

ScaleMoved == call.exps.den - ret.out

\* The denominator is normalized: its top limb has exactly
\* integral_binary_factor(radix) leading zeros, and its limbs are those it
\* had, moved left by as many bits as its exponent went down.
ScaleNormalized ==
    /\ ret.flag
    /\ ret.v # <<>>
    /\ Len(ret.v) <= Len(call.x) + 1
    /\ Bigfloat_leading_zeros(call.m, ret.v) = integral_binary_factor("radix", call.n)
    /\ ScaleMoved \in 0..(call.m - 1)
    /\ ValueIn(call.m, ret.v) = ValueIn(call.m, call.x) * Pow(2, ScaleMoved)

\* C23: for every odd radix and every denominator, with limbs of either
\* width, byte_comp leaves the top limb of the denominator with exactly
\* integral_binary_factor(radix) leading zeros and its exponent lower by
\* the bits it was shifted by.
C23_DenNormalized == Returned("byte_comp") => ScaleNormalized

\* With narrow limbs and a denominator that has fewer leading zeros than
\* asked for, or more, the normalisation is as C23 says.
C23_NarrowNormalized ==
    (/\ Returned("byte_comp")
     /\ call.m = NARROW_LIMB_BITS
     /\ byte_comp_nlz(call.m, call.n, ScaleDen) # 0)
        => ScaleNormalized

C23_WideShort ==
    /\ Returned("byte_comp")
    /\ call.m = WIDE_LIMB_BITS
    /\ ~call.debug
    /\ call.x = <<1>>
    /\ call.n = 3
    /\ ret.flag
    /\ Bigfloat_leading_zeros(call.m, ret.v) # integral_binary_factor("radix", call.n)

\* C27: every shl_bits call made by byte_comp passes a number of bits n
\* with 0 < n < LIMB_BITS.
C27_ShlBitsInRange ==
    Returned("byte_comp") =>
        \A i \in 1..Len(ret.shifts) : 0 < ret.shifts[i] /\ ret.shifts[i] < call.m

\* Every shift byte_comp asks for is below the width of a limb.
C27_ShlBitsBelowWidth ==
    Returned("byte_comp") =>
        \A i \in 1..Len(ret.shifts) : 0 <= ret.shifts[i] /\ ret.shifts[i] < call.m

\* With debug assertions the shift by 0 bits panics: here in the
\* normalisation of the denominator ...
C27_PanicDen ==
    /\ Returned("byte_comp")
    /\ call.debug
    /\ ret.st = "panic"
    /\ ret.shifts = <<0>>

\* ... and here in the alignment of the numerator.
C27_PanicNum ==
    /\ Returned("byte_comp")
    /\ call.debug
    /\ ret.st = "panic"
    /\ Len(ret.shifts) = 2
    /\ ret.shifts[1] # 0
    /\ ret.shifts[2] = 0


\* The digits of the significand of the input of parse_mantissa, those of
\* its fraction, and its exponent: the digit after the exponent character.
ParseDigits == InputDigits(call.bytes)

RECURSIVE FractionDigits(_)
FractionDigits(bytes) ==
    IF bytes = <<>> \/ Head(bytes) = EXPONENT_BYTE THEN <<>>
    ELSE IF Head(bytes) = DECIMAL_POINT THEN InputDigits(Tail(bytes))
    ELSE FractionDigits(Tail(bytes))

ExplicitExponent ==
    IF Len(call.bytes) >= 2 /\ call.bytes[Len(call.bytes) - 1] = EXPONENT_BYTE
    THEN call.bytes[Len(call.bytes)] - ZERO_BYTE
    ELSE 0

\* The Number summary of the input (parse.rs, not part of the sources at
\* hand): the mantissa is the integer the digits of the significand spell,
\* the exponent counts from the last of them.
NumberOf ==
    [mantissa |-> Spelled(ParseDigits, Len(ParseDigits), call.n),
     exponent |-> ExplicitExponent - Len(FractionDigits(call.bytes))]

\* m1 * radix^e1 = m2 * radix^e2, for integers e1 and e2.
RECURSIVE EqScaled(_, _, _, _, _)
EqScaled(m1, e1, m2, e2, radix) ==
    IF e1 = e2 THEN m1 = m2
    ELSE IF e1 < e2 THEN EqScaled(m2, e2, m1, e1, radix)
    ELSE m2 % radix = 0 /\ EqScaled(m1, e1, m2 \div radix, e2 + 1, radix)

\* The value parse_mantissa's result stands for in digit_comp is the value
\* of the input.
ParsedExactly ==
    EqScaled(Value(ret.v),
             scientific_exponent(call.n, NumberOf) + 1 - ret.out,
             NumberOf.mantissa, NumberOf.exponent, call.n)

\* C21: for every significand with at most max_digits digits, beginning
\* with zero digits or not, parse_mantissa returns (m, digits) with
\* m * radix^(sci_exp + 1 - digits) the exact value of the input, sci_exp
\* being the scientific exponent of the Number summary of the input.
C21_ParsedExactly ==
    (Returned("parse_mantissa") /\ Len(ParseDigits) <= call.m) => ParsedExactly

\* The same for the significands whose first digit is not zero.
C21_ParsedExactlyNoLeadingZero ==
    (/\ Returned("parse_mantissa")
     /\ Len(ParseDigits) <= call.m
     /\ ParseDigits[1] # 0)
        => ParsedExactly

C21_LeadingZeroCounted ==
    /\ Returned("parse_mantissa")
    /\ Len(ParseDigits) <= call.m
    /\ ParseDigits[1] = 0
    /\ ret.out = Len(ParseDigits)
    /\ ~ParsedExactly

\* Whether a digit after the first k of the significand is not zero.
NonzeroAfter(digits, k) == \E i \in (k + 1)..Len(digits) : digits[i] # 0

\* C22: parse_mantissa counts at most max_digits digits, and the big
\* integer is the integer the counted digits spell, plus exactly 1 if and
\* only if a digit left before the exponent is not zero.
C22_ParseMantissaTruncated ==
    Returned("parse_mantissa") =>
        /\ ret.out <= call.m
        /\ ret.out <= Len(ParseDigits)
        /\ ret.out < call.m => ret.out = Len(ParseDigits)
        /\ Value(ret.v) = Spelled(ParseDigits, ret.out, call.n)
                              + (IF NonzeroAfter(ParseDigits, ret.out) THEN 1 ELSE 0)

\* More digits than max_digits, a nonzero one among those left in the
\* integer, and the big integer is one more than the counted digits spell.
C22_Witness ==
    /\ Returned("parse_mantissa")
    /\ ret.out = call.m
    /\ Len(ParseDigits) - Len(FractionDigits(call.bytes)) > call.m
    /\ NonzeroAfter(ParseDigits, call.m)
    /\ Value(ret.v) = Spelled(ParseDigits, call.m, call.n) + 1

\* More digits than max_digits, all of those left are zero, and nothing is
\* added.
C22_WitnessZeros ==
    /\ Returned("parse_mantissa")
    /\ ret.out = call.m
    /\ Len(ParseDigits) > call.m
    /\ ~NonzeroAfter(ParseDigits, call.m)
    /\ Len(FractionDigits(call.bytes)) > 0
    /\ Value(ret.v) = Spelled(ParseDigits, call.m, call.n)

====
